---- MODULE Spec2Model ----
(***************************************************************************)
(* botmem: four typed stores over one embedded SQLite database (blocks,    *)
(* archival facts, entity/relation graph, leveled summaries), the context  *)
(* assembler that reads them and the commands that write them.             *)
(*                                                                         *)
(* Tables are sets of rows.  The engine's part (UNIQUE, AUTOINCREMENT,     *)
(* FOREIGN KEY, CURRENT_TIMESTAMP, ORDER BY) is modelled per statement     *)
(* from the schema in migrate(); a store method is the sequence of         *)
(* statements its Go code issues.  Every store method takes a fault point  *)
(* f: 0 means the engine answers every statement, k > 0 means the k-th     *)
(* statement of the method returns an engine error (I/O error, busy, ...). *)
(* The CLI commands run with f = 0; Build draws a fault for each read.     *)
(***************************************************************************)
EXTENDS Integers, Sequences, FiniteSets, TLC

(* ------------------------------ bounds --------------------------------- *)
\* CURRENT_TIMESTAMP has a resolution of one second: the clock takes the
\* values 0..MaxTime, so rows can share a timestamp or differ in it.
MaxTime == 1
\* AUTOINCREMENT counters are capped: at most this many rows are ever
\* inserted into each table.
MaxBlockId == 3
MaxRelationId == 2
MaxArchivalId == 2
MaxSummaryId == 1
\* The cap on the rows that "summary add" inserts: more than the five
\* summaries a payload holds.
MaxSummaryCmdId == 7

\* The cap on the rows that the archival store's Add inserts when it is
\* called on its own.
MaxArchiveCmdId == 3

\* The most rows a listed table holds: more than the default limits of the
\* lists (20 summaries).
MaxListedRows == 22

(* ------------------------------ inputs --------------------------------- *)
\* Strings are ordered by their position in these ascending lists
\* (ORDER BY label, ORDER BY name).
LabelOrder == <<"human", "persona">>
NameOrder == <<"A", "B">>
Labels == {LabelOrder[i] : i \in 1..Len(LabelOrder)}
Names == {NameOrder[i] : i \in 1..Len(NameOrder)}
BlockTypes == {"", "core", "archival"}
Contents == {"X", "Y"}
EntityTypes == {"", "person"}
Predicates == {"p", "q"}
\* Every caller of AddRelation passes the empty metadata.
Metadatas == {""}

Rank(order, x) == CHOOSE i \in 1..Len(order) : order[i] = x

\* Error values of the Go code: nil, a wrapped sql.ErrNoRows, a wrapped
\* UNIQUE / FOREIGN KEY constraint failure, any other engine error.
OK == "nil"
NotFound == "NotFound"
Conflict == "Conflict"
ForeignKey == "ForeignKey"
EngineError == "EngineError"

VARIABLES
  now,          \* CURRENT_TIMESTAMP
  blocks,       \* table memory_blocks
  blockSeq,     \* its AUTOINCREMENT counter
  archival,     \* table archival
  archivalFts,  \* its full-text index archival_fts, kept by the triggers
  archivalSeq,
  entities,     \* table entities
  entitySeq,
  relations,    \* table relations
  relationSeq,
  summaries,    \* table conversation_summaries
  summarySeq,
  res           \* the last command: its name, arguments and what it returned

vars == <<now, blocks, blockSeq, archival, archivalFts, archivalSeq,
          entities, entitySeq, relations, relationSeq, summaries, summarySeq,
          res>>
blockVars == <<blocks, blockSeq>>
archivalVars == <<archival, archivalFts, archivalSeq>>
graphVars == <<entities, entitySeq, relations, relationSeq>>
summaryVars == <<summaries, summarySeq>>

(* ------------------------------ ordering ------------------------------- *)
\* The sequences that list every element of S once and never put y before
\* x when Before(x, y): the outcomes of SELECT ... ORDER BY.  Rows the
\* ORDER BY does not separate may come in either order.
SortedSeqs(S, Before(_, _)) ==
  LET sorted[T \in SUBSET S] ==
        IF T = {}
        THEN {<<>>}
        ELSE UNION {{<<x>> \o s : s \in sorted[T \ {x}]} :
                      x \in {y \in T : \A z \in T : ~Before(z, y)}}
  IN sorted[S]

Take(s, n) == IF Len(s) <= n THEN s ELSE SubSeq(s, 1, n)

Min(a, b) == IF a < b THEN a ELSE b
Max(a, b) == IF a > b THEN a ELSE b

(* ============================ Block Store ============================== *)
NilBlock == [id |-> 0, label |-> "", block_type |-> "", content |-> "",
             created_at |-> 0, updated_at |-> 0]

\* INSERT INTO memory_blocks (label, block_type, content): label is UNIQUE,
\* id is AUTOINCREMENT, created_at and updated_at default to
\* CURRENT_TIMESTAMP.
BlockInsert_UniquePerType(rows, seq, label, blockType, content, t) ==
  IF \E b \in rows : b.label = label /\ b.block_type = blockType
  THEN [err |-> Conflict, seq |-> seq, id |-> 0, rows |-> rows]
  ELSE [err |-> OK, seq |-> seq + 1, id |-> seq + 1,
        rows |-> rows \cup {[id |-> seq + 1, label |-> label,
                             block_type |-> blockType, content |-> content,
                             created_at |-> t, updated_at |-> t]}]

BlockInsert_NoUnique(rows, seq, label, blockType, content, t) ==
  [err |-> OK, seq |-> seq + 1, id |-> seq + 1,
   rows |-> rows \cup {[id |-> seq + 1, label |-> label,
                        block_type |-> blockType, content |-> content,
                        created_at |-> t, updated_at |-> t]}]

BlockInsert(rows, seq, label, blockType, content, t) ==
  IF \E b \in rows : b.label = label
  THEN [err |-> Conflict, seq |-> seq, id |-> 0, rows |-> rows]
  ELSE [err |-> OK, seq |-> seq + 1, id |-> seq + 1,
        rows |-> rows \cup {[id |-> seq + 1, label |-> label,
                             block_type |-> blockType, content |-> content,
                             created_at |-> t, updated_at |-> t]}]

\* SELECT ... FROM memory_blocks WHERE id = ?  (QueryRow.Scan)
GetByID(rows, id, f) ==
  IF f = 1 THEN [err |-> EngineError, block |-> NilBlock]
  ELSE IF \E b \in rows : b.id = id
  THEN [err |-> OK, block |-> CHOOSE b \in rows : b.id = id]
  ELSE [err |-> NotFound, block |-> NilBlock]

\* SELECT ... FROM memory_blocks WHERE label = ?  (QueryRow.Scan)
GetByLabel(rows, label, f) ==
  IF f = 1 THEN [err |-> EngineError, block |-> NilBlock]
  ELSE IF \E b \in rows : b.label = label
  THEN [err |-> OK, block |-> CHOOSE b \in rows : b.label = label]
  ELSE [err |-> NotFound, block |-> NilBlock]

Create(rows, seq, label, blockType, content, t, f) ==
  LET bt == IF blockType = "" THEN "core" ELSE blockType
      ins == BlockInsert(rows, seq, label, bt, content, t)
  IN IF f = 1
     THEN [err |-> EngineError, block |-> NilBlock, rows |-> rows, seq |-> seq]
     ELSE IF ins.err # OK
     THEN [err |-> ins.err, block |-> NilBlock, rows |-> rows, seq |-> seq]
     ELSE LET got == GetByID(ins.rows, ins.id, IF f = 2 THEN 1 ELSE 0)
          IN [err |-> got.err, block |-> got.block,
              rows |-> ins.rows, seq |-> ins.seq]

\* UPDATE memory_blocks SET content = ?, updated_at = CURRENT_TIMESTAMP
\* WHERE label = ?
BlockUpdateStmt(rows, label, content, t) ==
  {IF b.label = label
   THEN [b EXCEPT !.content = content, !.updated_at = t]
   ELSE b : b \in rows}

Update_Upsert(rows, label, content, t, f) ==
  LET new == IF \E b \in rows : b.label = label
             THEN BlockUpdateStmt(rows, label, content, t)
             ELSE rows \cup {[id |-> 1 + Cardinality(rows), label |-> label,
                              block_type |-> "core", content |-> content,
                              created_at |-> t, updated_at |-> t]}
      got == GetByLabel(new, label, 0)
  IN [err |-> got.err, block |-> got.block, rows |-> new]

Update(rows, label, content, t, f) ==
  IF f = 1
  THEN [err |-> EngineError, block |-> NilBlock, rows |-> rows]
  ELSE LET new == BlockUpdateStmt(rows, label, content, t)
           got == GetByLabel(new, label, IF f = 2 THEN 1 ELSE 0)
       IN [err |-> got.err, block |-> got.block, rows |-> new]

\* DELETE FROM memory_blocks WHERE label = ?
Delete_Strict(rows, label, f) ==
  IF \E b \in rows : b.label = label
  THEN [err |-> OK, rows |-> {b \in rows : b.label # label}]
  ELSE [err |-> NotFound, rows |-> rows]

Delete(rows, label, f) ==
  IF f = 1
  THEN [err |-> EngineError, rows |-> rows]
  ELSE [err |-> OK, rows |-> {b \in rows : b.label # label}]

LabelBefore(a, b) == Rank(LabelOrder, a.label) < Rank(LabelOrder, b.label)

List_AllTypes(rows, blockType, f) ==
  IF f = 1
  THEN [err |-> EngineError, blocks |-> <<>>]
  ELSE [err |-> OK, blocks |-> CHOOSE s \in SortedSeqs(rows, LabelBefore) : TRUE]

\* SELECT ... FROM memory_blocks [WHERE block_type = ?] ORDER BY label
List(rows, blockType, f) ==
  IF f = 1
  THEN [err |-> EngineError, blocks |-> <<>>]
  ELSE LET sel == IF blockType # ""
                  THEN {b \in rows : b.block_type = blockType}
                  ELSE rows
       IN [err |-> OK, blocks |-> CHOOSE s \in SortedSeqs(sel, LabelBefore) : TRUE]

(* --------------------------- block commands ---------------------------- *)
\* The insert a command is about to make fits the cap on the counter.
BlockRoom(label) == (\E b \in blocks : b.label = label) \/ blockSeq < MaxBlockId

BlockCreate ==
  \E label \in Labels, bt \in BlockTypes, content \in Contents :
    /\ BlockRoom(label)
    /\ LET r == Create(blocks, blockSeq, label, bt, content, now, 0)
       IN /\ blocks' = r.rows
          /\ blockSeq' = r.seq
          /\ res' = [op |-> "block create", label |-> label, block_type |-> bt,
                     content |-> content, err |-> r.err, block |-> r.block]
    /\ UNCHANGED <<now, graphVars, archivalVars, summaryVars>>

BlockGet ==
  \E label \in Labels :
    /\ LET r == GetByLabel(blocks, label, 0)
       IN res' = [op |-> "block get", label |-> label,
                  err |-> r.err, block |-> r.block]
    /\ UNCHANGED <<now, blockVars, graphVars, archivalVars, summaryVars>>

\* "block set": GetByLabel, then Create when it failed, else Update.
BlockSet ==
  \E label \in Labels, content \in Contents :
    /\ BlockRoom(label)
    /\ LET g == GetByLabel(blocks, label, 0)
       IN IF g.err # OK
          THEN LET r == Create(blocks, blockSeq, label, "core", content, now, 0)
               IN /\ blocks' = r.rows
                  /\ blockSeq' = r.seq
                  /\ res' = [op |-> "block set", label |-> label,
                             content |-> content, err |-> r.err]
          ELSE LET r == Update(blocks, label, content, now, 0)
               IN /\ blocks' = r.rows
                  /\ blockSeq' = blockSeq
                  /\ res' = [op |-> "block set", label |-> label,
                             content |-> content, err |-> r.err]
    /\ UNCHANGED <<now, graphVars, archivalVars, summaryVars>>

BlockUpdate ==
  \E label \in Labels, content \in Contents :
    /\ LET r == Update(blocks, label, content, now, 0)
       IN /\ blocks' = r.rows
          /\ res' = [op |-> "block update", label |-> label,
                     content |-> content, err |-> r.err, block |-> r.block]
    /\ UNCHANGED <<now, blockSeq, graphVars, archivalVars, summaryVars>>

BlockDelete ==
  \E label \in Labels :
    /\ LET r == Delete(blocks, label, 0)
       IN /\ blocks' = r.rows
          /\ res' = [op |-> "block delete", label |-> label, err |-> r.err]
    /\ UNCHANGED <<now, blockSeq, graphVars, archivalVars, summaryVars>>

BlockList ==
  \E bt \in BlockTypes :
    /\ LET r == List(blocks, bt, 0)
       IN res' = [op |-> "block list", block_type |-> bt,
                  err |-> r.err, blocks |-> r.blocks]
    /\ UNCHANGED <<now, blockVars, graphVars, archivalVars, summaryVars>>

\* A second passes.
Tick ==
  /\ now < MaxTime
  /\ now' = now + 1
  /\ res' = [op |-> "tick", err |-> OK]
  /\ UNCHANGED <<blockVars, graphVars, archivalVars, summaryVars>>

(* ============================ Graph Store ============================== *)
\* INSERT OR IGNORE INTO entities (name, entity_type): name is UNIQUE, a
\* conflicting insert is dropped without an error.
EntityInsertOrIgnore_Replace(rows, seq, name, entityType, t) ==
  [seq |-> seq + 1,
   rows |-> {e \in rows : e.name # name}
            \cup {[id |-> seq + 1, name |-> name,
                   entity_type |-> entityType, created_at |-> t]}]

EntityInsertOrIgnore(rows, seq, name, entityType, t) ==
  IF \E e \in rows : e.name = name
  THEN [seq |-> seq, rows |-> rows]
  ELSE [seq |-> seq + 1,
        rows |-> rows \cup {[id |-> seq + 1, name |-> name,
                             entity_type |-> entityType, created_at |-> t]}]

\* SELECT id FROM entities WHERE name = ?  (QueryRow.Scan)
EntitySelectId(rows, name) ==
  IF \E e \in rows : e.name = name
  THEN [err |-> OK, id |-> (CHOOSE e \in rows : e.name = name).id]
  ELSE [err |-> NotFound, id |-> 0]

EnsureEntity_SelectOnly(rows, seq, name, entityType, t, f) ==
  LET sel == EntitySelectId(rows, name)
  IN [err |-> sel.err, id |-> sel.id, rows |-> rows, seq |-> seq]

EnsureEntity(rows, seq, name, entityType, t, f) ==
  IF f = 1
  THEN [err |-> EngineError, id |-> 0, rows |-> rows, seq |-> seq]
  ELSE LET ins == EntityInsertOrIgnore(rows, seq, name, entityType, t)
           sel == EntitySelectId(ins.rows, name)
       IN IF f = 2
          THEN [err |-> EngineError, id |-> 0, rows |-> ins.rows, seq |-> ins.seq]
          ELSE [err |-> sel.err, id |-> sel.id, rows |-> ins.rows, seq |-> ins.seq]

\* INSERT OR IGNORE INTO relations (subject_id, predicate, object_id,
\* metadata): subject_id and object_id REFERENCE entities(id) with
\* foreign_keys(on), (subject_id, predicate, object_id) is UNIQUE and a
\* conflicting insert is dropped without an error.
RelationInsertOrIgnore_NoUnique(ents, rows, seq, subID, predicate, objID, metadata, t) ==
  [err |-> OK, seq |-> seq + 1,
   rows |-> rows \cup {[id |-> seq + 1, subject_id |-> subID,
                        predicate |-> predicate, object_id |-> objID,
                        metadata |-> metadata, created_at |-> t]}]

RelationInsertOrIgnore_Replace(ents, rows, seq, subID, predicate, objID, metadata, t) ==
  IF ~ /\ \E e \in ents : e.id = subID
       /\ \E e \in ents : e.id = objID
  THEN [err |-> ForeignKey, seq |-> seq, rows |-> rows]
  ELSE IF \E r \in rows : /\ r.subject_id = subID
                          /\ r.predicate = predicate
                          /\ r.object_id = objID
  THEN [err |-> OK, seq |-> seq,
        rows |-> {IF /\ r.subject_id = subID
                     /\ r.predicate = predicate
                     /\ r.object_id = objID
                  THEN [r EXCEPT !.metadata = metadata]
                  ELSE r : r \in rows}]
  ELSE [err |-> OK, seq |-> seq + 1,
        rows |-> rows \cup {[id |-> seq + 1, subject_id |-> subID,
                             predicate |-> predicate, object_id |-> objID,
                             metadata |-> metadata, created_at |-> t]}]


RelationInsertOrIgnore(ents, rows, seq, subID, predicate, objID, metadata, t) ==
  IF \E r \in rows : /\ r.subject_id = subID
                     /\ r.predicate = predicate
                     /\ r.object_id = objID
  THEN [err |-> OK, seq |-> seq, rows |-> rows]
  ELSE IF ~ /\ \E e \in ents : e.id = subID
            /\ \E e \in ents : e.id = objID
  THEN [err |-> ForeignKey, seq |-> seq, rows |-> rows]
  ELSE [err |-> OK, seq |-> seq + 1,
        rows |-> rows \cup {[id |-> seq + 1, subject_id |-> subID,
                             predicate |-> predicate, object_id |-> objID,
                             metadata |-> metadata, created_at |-> t]}]

\* Statements 1-2 ensure the subject, 3-4 the object, 5 inserts the relation.
AddRelation(ents, eseq, rels, rseq, subject, predicate, object, metadata, t, f) ==
  LET s == EnsureEntity(ents, eseq, subject, "", t, IF f \in {1, 2} THEN f ELSE 0)
      o == EnsureEntity(s.rows, s.seq, object, "", t,
                        IF f \in {3, 4} THEN f - 2 ELSE 0)
      ins == RelationInsertOrIgnore(o.rows, rels, rseq, s.id, predicate, o.id,
                                    metadata, t)
  IN IF s.err # OK
     THEN [err |-> s.err, ents |-> s.rows, eseq |-> s.seq,
           rels |-> rels, rseq |-> rseq]
     ELSE IF o.err # OK
     THEN [err |-> o.err, ents |-> o.rows, eseq |-> o.seq,
           rels |-> rels, rseq |-> rseq]
     ELSE IF f = 5
     THEN [err |-> EngineError, ents |-> o.rows, eseq |-> o.seq,
           rels |-> rels, rseq |-> rseq]
     ELSE [err |-> ins.err, ents |-> o.rows, eseq |-> o.seq,
           rels |-> ins.rows, rseq |-> ins.seq]

\* FROM relations r JOIN entities s ON s.id = r.subject_id
\*                  JOIN entities o ON o.id = r.object_id
\* WHERE s.name = ? OR o.name = ?: one joined row <<r, s, o>> for each
\* combination of rows that satisfies the conditions.
QueryJoin_UnionAll(ents, rels, name) ==
  {<<r, s, o, "subject">> : <<r, s, o>> \in
     {j \in rels \X ents \X ents :
        j[2].id = j[1].subject_id /\ j[3].id = j[1].object_id /\ j[2].name = name}}
  \cup
  {<<r, s, o, "object">> : <<r, s, o>> \in
     {j \in rels \X ents \X ents :
        j[2].id = j[1].subject_id /\ j[3].id = j[1].object_id /\ j[3].name = name}}

QueryJoin(ents, rels, name) ==
  {j \in rels \X ents \X ents :
     /\ j[2].id = j[1].subject_id
     /\ j[3].id = j[1].object_id
     /\ (j[2].name = name \/ j[3].name = name)}

\* The Relation struct scanned from a joined row.
RelationOf(j) ==
  [id |-> j[1].id, subject |-> j[2].name, predicate |-> j[1].predicate,
   object |-> j[3].name, metadata |-> j[1].metadata,
   created_at |-> j[1].created_at]

NewerJoin(a, b) == a[1].created_at > b[1].created_at

\* ORDER BY r.created_at DESC leaves the order of relations created in the
\* same second to the engine: QueryEntity is the set of results it may give.
QueryEntity(ents, rels, name, f) ==
  IF f = 1
  THEN {[err |-> EngineError, rels |-> <<>>]}
  ELSE {[err |-> OK, rels |-> [i \in 1..Len(s) |-> RelationOf(s[i])]] :
          s \in SortedSeqs(QueryJoin(ents, rels, name), NewerJoin)}

NameBefore(a, b) == Rank(NameOrder, a.name) < Rank(NameOrder, b.name)

\* SELECT ... FROM entities [WHERE entity_type = ?] ORDER BY name
ListEntities(ents, entityType, f) ==
  IF f = 1
  THEN [err |-> EngineError, entities |-> <<>>]
  ELSE LET sel == IF entityType # ""
                  THEN {e \in ents : e.entity_type = entityType}
                  ELSE ents
       IN [err |-> OK,
           entities |-> CHOOSE s \in SortedSeqs(sel, NameBefore) : TRUE]

(* --------------------------- graph commands ---------------------------- *)
RelationRoom(subject, predicate, object) ==
  \/ relationSeq < MaxRelationId
  \/ \E r \in relations, s \in entities, o \in entities :
       /\ s.id = r.subject_id /\ s.name = subject
       /\ o.id = r.object_id /\ o.name = object
       /\ r.predicate = predicate

GraphEnsure ==
  \E name \in Names, et \in EntityTypes :
    /\ LET r == EnsureEntity(entities, entitySeq, name, et, now, 0)
       IN /\ entities' = r.rows
          /\ entitySeq' = r.seq
          /\ res' = [op |-> "ensure entity", name |-> name, entity_type |-> et,
                     err |-> r.err, id |-> r.id]
    /\ UNCHANGED <<now, blockVars, archivalVars, relations, relationSeq,
                   summaryVars>>

\* "graph add"
GraphAdd ==
  \E subject \in Names, predicate \in Predicates, object \in Names,
     metadata \in Metadatas :
    /\ RelationRoom(subject, predicate, object)
    /\ LET r == AddRelation(entities, entitySeq, relations, relationSeq,
                            subject, predicate, object, metadata, now, 0)
       IN /\ entities' = r.ents
          /\ entitySeq' = r.eseq
          /\ relations' = r.rels
          /\ relationSeq' = r.rseq
          /\ res' = [op |-> "graph add", subject |-> subject,
                     predicate |-> predicate, object |-> object,
                     metadata |-> metadata, err |-> r.err]
    /\ UNCHANGED <<now, blockVars, archivalVars, summaryVars>>

\* "graph add" with the metadata drawn from the given set.
GraphAddWith(metadatas) ==
  \E subject \in Names, predicate \in Predicates, object \in Names,
     metadata \in metadatas :
    /\ RelationRoom(subject, predicate, object)
    /\ LET r == AddRelation(entities, entitySeq, relations, relationSeq,
                            subject, predicate, object, metadata, now, 0)
       IN /\ entities' = r.ents
          /\ entitySeq' = r.eseq
          /\ relations' = r.rels
          /\ relationSeq' = r.rseq
          /\ res' = [op |-> "graph add", subject |-> subject,
                     predicate |-> predicate, object |-> object,
                     metadata |-> metadata, err |-> r.err]
    /\ UNCHANGED <<now, blockVars, archivalVars, summaryVars>>


\* "graph query"
GraphQuery ==
  \E name \in Names :
    /\ \E r \in QueryEntity(entities, relations, name, 0) :
         res' = [op |-> "graph query", name |-> name,
                 err |-> r.err, rels |-> r.rels]
    /\ UNCHANGED <<now, blockVars, graphVars, archivalVars, summaryVars>>

\* "graph entities"
GraphEntities ==
  \E et \in EntityTypes :
    /\ LET r == ListEntities(entities, et, 0)
       IN res' = [op |-> "graph entities", entity_type |-> et,
                  err |-> r.err, entities |-> r.entities]
    /\ UNCHANGED <<now, blockVars, graphVars, archivalVars, summaryVars>>

(* ========================== Archival Store ============================= *)
\* A NULL embedding column (a nil []byte).
NoEmbedding == "NULL"

NilEntry == [id |-> 0, content |-> "", tags |-> "", embedding |-> NoEmbedding,
             created_at |-> 0]

\* Join that puts a space after each comma.
RECURSIVE JoinTags_Spaced(_)
JoinTags_Spaced(tags) ==
  IF Len(tags) = 0 THEN ""
  ELSE IF Len(tags) = 1 THEN tags[1]
  ELSE tags[1] \o ", " \o JoinTags_Spaced(Tail(tags))


\* strings.Join(tags, ",")
RECURSIVE JoinTags(_)
JoinTags(tags) ==
  IF Len(tags) = 0 THEN ""
  ELSE IF Len(tags) = 1 THEN tags[1]
  ELSE tags[1] \o "," \o JoinTags(Tail(tags))

\* INSERT INTO archival (content, tags, embedding): id is AUTOINCREMENT,
\* created_at defaults to CURRENT_TIMESTAMP; the trigger archival_ai then
\* inserts the row's id, content and tags into archival_fts.
ArchivalInsert(rows, fts, seq, content, tagStr, embedding, t) ==
  [seq |-> seq + 1, id |-> seq + 1,
   rows |-> rows \cup {[id |-> seq + 1, content |-> content, tags |-> tagStr,
                        embedding |-> embedding, created_at |-> t]},
   fts |-> fts \cup {[rowid |-> seq + 1, content |-> content, tags |-> tagStr]}]

\* SELECT ... FROM archival WHERE id = ?  (QueryRow.Scan)
ArchivalGetByID(rows, id, f) ==
  IF f = 1 THEN [err |-> EngineError, entry |-> NilEntry]
  ELSE IF \E e \in rows : e.id = id
  THEN [err |-> OK, entry |-> CHOOSE e \in rows : e.id = id]
  ELSE [err |-> NotFound, entry |-> NilEntry]

ArchivalAdd(rows, fts, seq, content, tags, embedding, t, f) ==
  LET ins == ArchivalInsert(rows, fts, seq, content, JoinTags(tags), embedding, t)
  IN IF f = 1
     THEN [err |-> EngineError, entry |-> NilEntry,
           rows |-> rows, fts |-> fts, seq |-> seq]
     ELSE LET got == ArchivalGetByID(ins.rows, ins.id, IF f = 2 THEN 1 ELSE 0)
          IN [err |-> got.err, entry |-> got.entry,
              rows |-> ins.rows, fts |-> ins.fts, seq |-> ins.seq]

\* ---- tags
TagNames == {"t", "u"}
\* The tag lists of Add: nil, one tag, two tags.
TagLists ==
  {<<>>} \cup {<<a>> : a \in TagNames}
         \cup {<<a, b>> : a \in TagNames, b \in TagNames}

\* Every string of at most three of the characters that tag strings are
\* made of.
TagChars == TagNames \cup {","}
Fragments ==
  LET strs[n \in 0..3] ==
        IF n = 0 THEN {""}
        ELSE strs[n - 1] \cup {c \o s : c \in TagChars, s \in strs[n - 1]}
  IN strs[3]

\* tags LIKE '%' || tag || '%'
Like(tagStr, tag) ==
  \E a \in Fragments, b \in Fragments : a \o tag \o b = tagStr

\* ---- List
ArchivalDefaultLimit == 50

\* What List and Search scan into an ArchivalEntry: the embedding column is
\* not selected.
Listed(e) == [e EXCEPT !.embedding = NoEmbedding]

\* ORDER BY created_at DESC
ArchivalNewer(a, b) == a.created_at > b.created_at

\* SELECT id, content, tags, created_at FROM archival [WHERE tags LIKE ?]
\* ORDER BY created_at DESC LIMIT ?
\* The order of entries created in the same second is left to the engine:
\* ArchivalList is the set of results it may give.
ArchivalList(rows, tag, limit, f) ==
  LET lim == IF limit <= 0 THEN ArchivalDefaultLimit ELSE limit
      sel == IF tag # "" THEN {e \in rows : Like(e.tags, tag)} ELSE rows
  IN IF f = 1
     THEN {[err |-> EngineError, entries |-> <<>>]}
     ELSE {[err |-> OK,
            entries |-> [i \in 1..Min(lim, Len(s)) |-> Listed(s[i])]] :
             s \in SortedSeqs(sel, ArchivalNewer)}

\* ---- Delete
\* Delete that leaves the index as it is.
ArchivalDelete_NoTrigger(rows, fts, id, f) ==
  IF f = 1
  THEN [err |-> EngineError, rows |-> rows, fts |-> fts]
  ELSE [err |-> OK, rows |-> {e \in rows : e.id # id}, fts |-> fts]

\* DELETE FROM archival WHERE id = ?; for the row it deletes the trigger
\* archival_ad gives the index the 'delete' command with the row's id,
\* content and tags.
ArchivalDelete(rows, fts, id, f) ==
  IF f = 1
  THEN [err |-> EngineError, rows |-> rows, fts |-> fts]
  ELSE [err |-> OK,
        rows |-> {e \in rows : e.id # id},
        fts |-> fts \ {[rowid |-> e.id, content |-> e.content,
                        tags |-> e.tags] : e \in {x \in rows : x.id = id}}]

\* ---- Search
ArchivalSearchLimit == 10

\* archival_fts MATCH ? for a query of one term: the term is a word of the
\* indexed content or of the indexed tags (contents are single words and
\* tags single letters here).
Match(x, query) == x.content = query \/ Like(x.tags, query)

\* ORDER BY rank: the order of the matches is the engine's.
AnyOrder(a, b) == FALSE

\* SELECT a.id, a.content, a.tags, a.created_at FROM archival_fts f
\* JOIN archival a ON a.id = f.rowid WHERE archival_fts MATCH ?
\* ORDER BY rank LIMIT ?
ArchivalSearch(rows, fts, query, limit, f) ==
  LET lim == IF limit <= 0 THEN ArchivalSearchLimit ELSE limit
      sel == {e \in rows : \E x \in fts : x.rowid = e.id /\ Match(x, query)}
  IN IF f = 1
     THEN {[err |-> EngineError, entries |-> <<>>]}
     ELSE {[err |-> OK,
            entries |-> [i \in 1..Min(lim, Len(s)) |-> Listed(s[i])]] :
             s \in SortedSeqs(sel, AnyOrder)}

(* ------------------------ archival store calls ------------------------- *)
\* Add(content, tags, nil)
ArchiveAdd(contents, tagLists) ==
  \E content \in contents, tags \in tagLists, f \in 0..2 :
    /\ archivalSeq < MaxArchiveCmdId
    /\ \E r \in {ArchivalAdd(archival, archivalFts, archivalSeq, content,
                             tags, NoEmbedding, now, f)} :
         /\ archival' = r.rows /\ archivalFts' = r.fts
         /\ archivalSeq' = r.seq
         /\ res' = [op |-> "archive add", content |-> content,
                    tags |-> tags, err |-> r.err, entry |-> r.entry]
    /\ UNCHANGED <<now, blockVars, graphVars, summaryVars>>

\* GetByID(id)
ArchiveGet ==
  \E id \in 1..MaxArchiveCmdId, f \in {0, 1} :
    /\ LET r == ArchivalGetByID(archival, id, f)
       IN res' = [op |-> "archive get", id |-> id, err |-> r.err,
                  entry |-> r.entry]
    /\ UNCHANGED <<now, blockVars, archivalVars, graphVars, summaryVars>>


\* List(tag, limit)
ArchiveList(tags, limits) ==
  \E tag \in tags, limit \in limits, f \in {0, 1} :
    /\ \E r \in ArchivalList(archival, tag, limit, f) :
         res' = [op |-> "archive list", tag |-> tag, limit |-> limit,
                 err |-> r.err, entries |-> r.entries]
    /\ UNCHANGED <<now, blockVars, archivalVars, graphVars, summaryVars>>

\* Search(query, limit)
ArchiveSearch(queries, limits) ==
  \E query \in queries, limit \in limits, f \in {0, 1} :
    /\ \E r \in ArchivalSearch(archival, archivalFts, query, limit, f) :
         res' = [op |-> "archive search", query |-> query, limit |-> limit,
                 err |-> r.err, entries |-> r.entries]
    /\ UNCHANGED <<now, blockVars, archivalVars, graphVars, summaryVars>>

\* Delete(id)
ArchiveDelete ==
  \E id \in 1..MaxArchiveCmdId, f \in {0, 1} :
    /\ \E r \in {ArchivalDelete(archival, archivalFts, id, f)} :
         /\ archival' = r.rows /\ archivalFts' = r.fts
         /\ res' = [op |-> "archive delete", id |-> id, err |-> r.err]
    /\ UNCHANGED <<now, archivalSeq, blockVars, graphVars, summaryVars>>


(* =========================== Summary Store ============================= *)
NilSummary == [id |-> 0, level |-> 0, content |-> "", source_ids |-> "",
               created_at |-> 0]

SummaryDefaultLimit == 20

SummaryBefore_Oldest(a, b) ==
  \/ a.created_at < b.created_at
  \/ a.created_at = b.created_at /\ a.id < b.id

\* ORDER BY created_at DESC, id DESC
SummaryBefore(a, b) ==
  \/ a.created_at > b.created_at
  \/ a.created_at = b.created_at /\ a.id > b.id

\* SummaryList that returns every row of the level when limit <= 0.
SummaryList_Unlimited(rows, level, limit, f) ==
  LET sel == {sm \in rows : sm.level = level}
      all == CHOOSE s \in SortedSeqs(sel, SummaryBefore) : TRUE
  IN IF f = 1
     THEN [err |-> EngineError, summaries |-> <<>>]
     ELSE [err |-> OK,
           summaries |-> IF limit <= 0 THEN all ELSE Take(all, limit)]


\* SELECT ... FROM conversation_summaries WHERE level = ?
\* ORDER BY created_at DESC, id DESC LIMIT ?
SummaryList(rows, level, limit, f) ==
  LET lim == IF limit <= 0 THEN SummaryDefaultLimit ELSE limit
      sel == {sm \in rows : sm.level = level}
  IN IF f = 1
     THEN [err |-> EngineError, summaries |-> <<>>]
     ELSE [err |-> OK,
           summaries |-> Take(CHOOSE s \in SortedSeqs(sel, SummaryBefore) : TRUE,
                              lim)]

\* INSERT INTO conversation_summaries (level, content, source_ids)
SummaryInsert(rows, seq, level, content, sourceIDs, t) ==
  [seq |-> seq + 1, id |-> seq + 1,
   rows |-> rows \cup {[id |-> seq + 1, level |-> level, content |-> content,
                        source_ids |-> sourceIDs, created_at |-> t]}]

\* SELECT ... FROM conversation_summaries WHERE id = ?  (QueryRow.Scan)
SummaryGetByID(rows, id, f) ==
  IF f = 1 THEN [err |-> EngineError, summary |-> NilSummary]
  ELSE IF \E sm \in rows : sm.id = id
  THEN [err |-> OK, summary |-> CHOOSE sm \in rows : sm.id = id]
  ELSE [err |-> NotFound, summary |-> NilSummary]

SummaryAdd(rows, seq, level, content, sourceIDs, t, f) ==
  LET ins == SummaryInsert(rows, seq, level, content, sourceIDs, t)
  IN IF f = 1
     THEN [err |-> EngineError, summary |-> NilSummary,
           rows |-> rows, seq |-> seq]
     ELSE LET got == SummaryGetByID(ins.rows, ins.id, IF f = 2 THEN 1 ELSE 0)
          IN [err |-> got.err, summary |-> got.summary,
              rows |-> ins.rows, seq |-> ins.seq]


(* -------------------------- summary commands --------------------------- *)
SummaryLevels == {0, 1}
SummaryContents == {"S"}

\* "summary add <text> --level <level>"
SummaryAddCmd ==
  \E level \in SummaryLevels, content \in SummaryContents :
    /\ summarySeq < MaxSummaryCmdId
    /\ LET r == SummaryAdd(summaries, summarySeq, level, content, "", now, 0)
       IN /\ summaries' = r.rows
          /\ summarySeq' = r.seq
          /\ res' = [op |-> "summary add", level |-> level,
                     content |-> content, err |-> r.err, summary |-> r.summary]
    /\ UNCHANGED <<now, blockVars, graphVars, archivalVars>>

(* ========================= Context Assembler =========================== *)
NilPayload == [nil |-> TRUE]

\* Build lists the level-0 summaries, five at most.
RecentLevel == 0
RecentLimit == 5

\* for _, r := range rels { if !seen[r.ID] { seen[r.ID] = true; append } }
RECURSIVE AppendUnseen_NoSeen(_, _, _, _)
AppendUnseen_NoSeen(rs, j, seen, acc) ==
  IF j > Len(rs)
  THEN [seen |-> seen, rels |-> acc]
  ELSE AppendUnseen_NoSeen(rs, j + 1, seen, Append(acc, rs[j]))

RECURSIVE AppendUnseen(_, _, _, _)
AppendUnseen(rs, j, seen, acc) ==
  IF j > Len(rs)
  THEN [seen |-> seen, rels |-> acc]
  ELSE IF rs[j].id \in seen
  THEN AppendUnseen(rs, j + 1, seen, acc)
  ELSE AppendUnseen(rs, j + 1, seen \cup {rs[j].id}, Append(acc, rs[j]))

\* for _, e := range entities: q[e.name] is what graph.QueryEntity(e.Name)
\* returned; an entity whose query failed is skipped (continue).
RECURSIVE ScanEntities(_, _, _, _, _)
ScanEntities(es, q, i, seen, acc) ==
  IF i > Len(es)
  THEN acc
  ELSE IF q[es[i].name].err # OK
  THEN ScanEntities(es, q, i + 1, seen, acc)
  ELSE LET a == AppendUnseen(q[es[i].name].rels, 1, seen, acc)
       IN ScanEntities(es, q, i + 1, a.seen, a.rels)

\* f.blocks, f.summaries, f.entities: the fault of each list read.
Build(bl, su, ents, f, q) ==
  LET coreBlocks == List(bl, "core", f.blocks)
      recentSummaries == SummaryList(su, RecentLevel, RecentLimit, f.summaries)
      es == ListEntities(ents, "", f.entities)
  IN IF coreBlocks.err # OK
     THEN [err |-> "load core blocks", payload |-> NilPayload]
     ELSE IF recentSummaries.err # OK
     THEN [err |-> "load summaries", payload |-> NilPayload]
     ELSE IF es.err # OK
     THEN [err |-> "load entities", payload |-> NilPayload]
     ELSE [err |-> OK,
           payload |-> [nil |-> FALSE,
                        core_blocks |-> coreBlocks.blocks,
                        recent_summaries |-> recentSummaries.summaries,
                        key_relations |->
                          ScanEntities(es.entities, q, 1, {}, <<>>)]]

\* Only a read that Build issues can fail: a list read only when the reads
\* before it succeeded, the query of a name only when the three lists
\* succeeded and the name is an entity.
BuildFaults ==
  {f \in [blocks : {0, 1}, summaries : {0, 1}, entities : {0, 1},
          query : [Names -> {0, 1}]] :
     /\ f.blocks = 1 => f.summaries = 0
     /\ f.blocks = 1 \/ f.summaries = 1 => f.entities = 0
     /\ \A n \in Names :
          f.query[n] = 1 =>
            /\ f.blocks = 0 /\ f.summaries = 0 /\ f.entities = 0
            /\ \E e \in entities : e.name = n}

\* What the QueryEntity calls of one Build may return under faults f: one
\* return for each of the first k names of NameOrder.
RECURSIVE QueryReturns(_, _)
QueryReturns(f, k) ==
  IF k = 0
  THEN {<<>>}
  ELSE LET returns == QueryEntity(entities, relations, NameOrder[k],
                                  f.query[NameOrder[k]])
       IN {Append(q, r) : q \in QueryReturns(f, k - 1), r \in returns}

\* "context"
Context ==
  \E f \in BuildFaults :
    \E q \in QueryReturns(f, Len(NameOrder)) :
      /\ LET r == Build(blocks, summaries, entities, f,
                        [n \in Names |-> q[Rank(NameOrder, n)]])
         IN res' = [op |-> "context", faults |-> f,
                    err |-> r.err, payload |-> r.payload]
      /\ UNCHANGED <<now, blockVars, graphVars, archivalVars, summaryVars>>

(* ======================== Extraction Pipeline ========================== *)
\* ---- the configuration and the environment of a run
NilConfig == [nil |-> TRUE]
Providers == {"claude", "anthropic", "ollama", "openai"}
APIKeys == {"", "sk-config"}
\* The value of ANTHROPIC_API_KEY; "" when it is not set.
EnvKeys == {"", "sk-env"}
\* cfg.EmbedProv: nil, or a provider.
EmbedProvs == {"nil", "embedder"}
Configs ==
  {NilConfig} \cup [Provider : Providers, APIKey : APIKeys, EmbedProv : EmbedProvs]

\* ---- what the model returns
NilResult == [nil |-> TRUE]

BlockUpdates == [label : Labels, content : Contents]
Facts == {[content |-> "Y", tags |-> <<"t">>]}
Triplets == {[subject |-> "A", predicate |-> "p", object |-> "B"]}
SummaryTexts == {"", "S"}

\* block_updates of a result: every list of at most two updates.
BlockUpdateLists ==
  {<<>>} \cup {<<u>> : u \in BlockUpdates}
         \cup {<<u, v>> : u \in BlockUpdates, v \in BlockUpdates}
FactLists == {<<>>} \cup {<<x>> : x \in Facts}
TripletLists == {<<>>} \cup {<<x>> : x \in Triplets}

ExtractionResults ==
  [block_updates : BlockUpdateLists, facts : FactLists,
   triplets : TripletLists, summary : SummaryTexts]

\* ---- the text a backend returns, as a sequence of tokens: a code fence
\* (three backquotes), a word, a newline, a space, or the text of one JSON
\* object that has the shape of an ExtractionResult.
Tok(kind) == [kind |-> kind, value |-> NilResult]
Fence == Tok("fence")
Word == Tok("word")
Newline == Tok("newline")
Space == Tok("space")
Object(r) == [kind |-> "object", value |-> r]

PlainText(r) == <<Object(r)>>
FencedText(r) == <<Fence, Word, Newline, Object(r), Newline, Fence>>

\* The backend's answer is a record [fail, text]: the call fails (exit
\* status, transport error, HTTP status, undecodable envelope, empty content
\* list), or it yields a text.
NoReply == [fail |-> TRUE, text |-> <<>>]

\* ---- parsing
\* The value of Body at v, with v computed once.
With(v, Body(_)) == CHOOSE y \in {Body(x) : x \in {v}} : TRUE

IsSpace(tok) == tok.kind \in {"newline", "space"}

\* strings.TrimSpace
RECURSIVE TrimLeft(_)
TrimLeft(s) ==
  IF Len(s) > 0 /\ IsSpace(s[1]) THEN TrimLeft(Tail(s)) ELSE s
RECURSIVE TrimRight(_)
TrimRight(s) ==
  IF Len(s) > 0 /\ IsSpace(s[Len(s)])
  THEN TrimRight(SubSeq(s, 1, Len(s) - 1)) ELSE s
TrimSpace(s) == With(TrimLeft(s), LAMBDA l : TrimRight(l))

\* strings.Index(s, newline): the first newline, 0 when there is none.
IndexNewline(s) ==
  IF \E i \in 1..Len(s) : s[i] = Newline
  THEN CHOOSE i \in 1..Len(s) :
         s[i] = Newline /\ \A j \in 1..(i - 1) : s[j] # Newline
  ELSE 0

stripCodeFences(s) ==
  With(TrimSpace(s), LAMBDA s1 :
  With(IndexNewline(s1), LAMBDA idx :
  With(IF Len(s1) > 0 /\ s1[1] = Fence /\ idx # 0
       THEN SubSeq(s1, idx + 1, Len(s1)) ELSE s1, LAMBDA s2 :
  With(IF Len(s2) > 0 /\ s2[Len(s2)] = Fence
       THEN SubSeq(s2, 1, Len(s2) - 1) ELSE s2, LAMBDA s3 :
       TrimSpace(s3)))))

\* json.Unmarshal that decodes the first JSON object of the text and ignores
\* what surrounds it.
Unmarshal_FirstObject(s) ==
  IF \E i \in 1..Len(s) : s[i].kind = "object"
  THEN [err |-> OK,
        result |-> s[CHOOSE i \in 1..Len(s) :
                       /\ s[i].kind = "object"
                       /\ \A j \in 1..(i - 1) : s[j].kind # "object"].value]
  ELSE [err |-> "decode extraction result", result |-> NilResult]


\* json.Unmarshal into an ExtractionResult: white space around the value is
\* skipped, anything else around it is an error.
Unmarshal(s) ==
  With(TrimSpace(s), LAMBDA v :
    IF Len(v) = 1 /\ v[1].kind = "object"
    THEN [err |-> OK, result |-> v[1].value]
    ELSE [err |-> "decode extraction result", result |-> NilResult])

extractWithClaude(reply) ==
  IF reply.fail
  THEN [err |-> "claude -p failed", result |-> NilResult]
  ELSE With(TrimSpace(reply.text), LAMBDA output :
         IF output = <<>>
         THEN [err |-> "empty response from claude -p", result |-> NilResult]
         ELSE Unmarshal(stripCodeFences(output)))

extractWithAnthropic(reply) ==
  IF reply.fail
  THEN [err |-> "anthropic request", result |-> NilResult]
  ELSE Unmarshal(reply.text)

extractWithOllama(reply) ==
  IF reply.fail
  THEN [err |-> "ollama request", result |-> NilResult]
  ELSE Unmarshal(reply.text)

\* ---- Run
\* fmt.Errorf("msg: %w", err)
Wrap(msg, err) == msg \o ": " \o err

\* SelectBackend without the check that an API key was found.
SelectBackend_NoKeyCheck(cfg, envKey) ==
  IF cfg = NilConfig
  THEN [err |-> "no config provided", backend |-> ""]
  ELSE IF cfg.Provider = "claude"
  THEN [err |-> OK, backend |-> "claude"]
  ELSE IF cfg.Provider = "anthropic"
  THEN [err |-> OK, backend |-> "anthropic"]
  ELSE IF cfg.Provider = "ollama"
  THEN [err |-> OK, backend |-> "ollama"]
  ELSE [err |-> "unknown provider", backend |-> ""]


\* The switch on cfg.Provider: the backend to call, or a configuration error.
SelectBackend(cfg, envKey) ==
  IF cfg = NilConfig
  THEN [err |-> "no config provided", backend |-> ""]
  ELSE IF cfg.Provider = "claude"
  THEN [err |-> OK, backend |-> "claude"]
  ELSE IF cfg.Provider = "anthropic"
  THEN LET apiKey == IF cfg.APIKey = "" THEN envKey ELSE cfg.APIKey
       IN IF apiKey = ""
          THEN [err |-> "no Anthropic API key", backend |-> ""]
          ELSE [err |-> OK, backend |-> "anthropic"]
  ELSE IF cfg.Provider = "ollama"
  THEN [err |-> OK, backend |-> "ollama"]
  ELSE [err |-> "unknown provider", backend |-> ""]

Extract(backend, reply) ==
  IF backend = "claude" THEN extractWithClaude(reply)
  ELSE IF backend = "anthropic" THEN extractWithAnthropic(reply)
  ELSE extractWithOllama(reply)

\* The statements of a run are numbered in the order the run issues them and
\* f names the one that fails (0: none).  A call that starts after k
\* statements and issues n of them fails at its own statement Local(f, k, n).
Local(f, k, n) == IF k < f /\ f <= k + n THEN f - k ELSE 0

\* Statements per block update (GetByLabel, then Create or Update), fact
\* (Add), triplet (AddRelation) and summary (Add).
Statements(r) ==
  3 * Len(r.block_updates) + 2 * Len(r.facts) + 5 * Len(r.triplets)
    + (IF r.summary # "" THEN 2 ELSE 0)

\* A store call of Run returned x = [err, db]: Run returns when it failed
\* and goes on with Rest on the database it left when it did not.
Then(x, Rest(_)) ==
  With(x, LAMBDA y : IF y.err # OK THEN y ELSE Rest(y.db))

\* The run's record of the store writes it has started, in the order it
\* started them: db.calls gets the store and the item's place in its list.
Called(db, store, i) ==
  [db EXCEPT !.calls = Append(@, [store |-> store, index |-> i])]

\* ApplyBlockUpdate that leaves a block that exists as it is.
ApplyBlockUpdate_KeepFirst(db, bu, t, f, k) ==
  LET existing == GetByLabel(db.blocks, bu.label, Local(f, k, 1))
  IN IF existing.err # OK
     THEN With(Create(db.blocks, db.blockSeq, bu.label, "core", bu.content,
                      t, Local(f, k + 1, 2)),
               LAMBDA c :
                 [err |-> IF c.err # OK THEN Wrap("create block", c.err)
                          ELSE OK,
                  db |-> [db EXCEPT !.blocks = c.rows, !.blockSeq = c.seq]])
     ELSE [err |-> OK, db |-> db]


\* One block update: GetByLabel, then Create when it failed, else Update.
ApplyBlockUpdate(db, bu, t, f, k) ==
  LET existing == GetByLabel(db.blocks, bu.label, Local(f, k, 1))
  IN IF existing.err # OK
     THEN With(Create(db.blocks, db.blockSeq, bu.label, "core", bu.content,
                      t, Local(f, k + 1, 2)),
               LAMBDA c :
                 [err |-> IF c.err # OK THEN Wrap("create block", c.err)
                          ELSE OK,
                  db |-> [db EXCEPT !.blocks = c.rows, !.blockSeq = c.seq]])
     ELSE With(Update(db.blocks, bu.label, bu.content, t, Local(f, k + 1, 2)),
               LAMBDA u :
                 [err |-> IF u.err # OK THEN Wrap("update block", u.err)
                          ELSE OK,
                  db |-> [db EXCEPT !.blocks = u.rows]])

RECURSIVE ApplyBlockUpdates(_, _, _, _, _, _)
ApplyBlockUpdates(db, bus, i, t, f, k) ==
  IF i > Len(bus) THEN [err |-> OK, db |-> db]
  ELSE Then(ApplyBlockUpdate(Called(db, "blocks", i), bus[i], t, f, k),
            LAMBDA d : ApplyBlockUpdates(d, bus, i + 1, t, f, k + 3))

\* embeddings.SerializeEmbedding(vec) of the vector Embed returns for content.
Embedding(content) == "embedding of " \o content

\* StoreFact that skips the fact when Embed fails.
StoreFact_SkipUnembedded(db, fact, embedProv, ok, t, f, k) ==
  IF embedProv # "nil" /\ ~ok
  THEN [err |-> OK, db |-> db]
  ELSE With(ArchivalAdd(db.archival, db.archivalFts, db.archivalSeq,
                        fact.content, fact.tags, Embedding(fact.content), t,
                        Local(f, k, 2)),
            LAMBDA a :
              [err |-> IF a.err # OK THEN Wrap("add fact", a.err) ELSE OK,
               db |-> [db EXCEPT !.archival = a.rows, !.archivalFts = a.fts,
                                 !.archivalSeq = a.seq]])

\* One fact: Embed when there is a provider (ok: it succeeds), then Add.
StoreFact(db, fact, embedProv, ok, t, f, k) ==
  LET emb == IF embedProv # "nil" /\ ok
             THEN Embedding(fact.content) ELSE NoEmbedding
  IN With(ArchivalAdd(db.archival, db.archivalFts, db.archivalSeq,
                      fact.content, fact.tags, emb, t, Local(f, k, 2)),
          LAMBDA a :
            [err |-> IF a.err # OK THEN Wrap("add fact", a.err) ELSE OK,
             db |-> [db EXCEPT !.archival = a.rows, !.archivalFts = a.fts,
                               !.archivalSeq = a.seq]])

\* embedded[i]: cfg.EmbedProv.Embed succeeds for the i-th fact.
RECURSIVE StoreFacts(_, _, _, _, _, _, _, _)
StoreFacts(db, facts, i, embedProv, embedded, t, f, k) ==
  IF i > Len(facts) THEN [err |-> OK, db |-> db]
  ELSE Then(StoreFact(Called(db, "archival", i), facts[i], embedProv,
                      embedded[i], t, f, k),
            LAMBDA d : StoreFacts(d, facts, i + 1, embedProv, embedded, t, f,
                                  k + 2))

\* StoreTriplet that takes the triplet's object for the subject.
StoreTriplet_Reversed(db, tr, t, f, k) ==
  With(AddRelation(db.entities, db.entitySeq, db.relations, db.relationSeq,
                   tr.object, tr.predicate, tr.subject, "", t,
                   Local(f, k, 5)),
       LAMBDA a :
         [err |-> IF a.err # OK THEN Wrap("add triplet", a.err) ELSE OK,
          db |-> [db EXCEPT !.entities = a.ents, !.entitySeq = a.eseq,
                            !.relations = a.rels, !.relationSeq = a.rseq]])


StoreTriplet(db, tr, t, f, k) ==
  With(AddRelation(db.entities, db.entitySeq, db.relations, db.relationSeq,
                   tr.subject, tr.predicate, tr.object, "", t,
                   Local(f, k, 5)),
       LAMBDA a :
         [err |-> IF a.err # OK THEN Wrap("add triplet", a.err) ELSE OK,
          db |-> [db EXCEPT !.entities = a.ents, !.entitySeq = a.eseq,
                            !.relations = a.rels, !.relationSeq = a.rseq]])

RECURSIVE StoreTriplets(_, _, _, _, _, _)
StoreTriplets(db, triplets, i, t, f, k) ==
  IF i > Len(triplets) THEN [err |-> OK, db |-> db]
  ELSE Then(StoreTriplet(Called(db, "graph", i), triplets[i], t, f, k),
            LAMBDA d : StoreTriplets(d, triplets, i + 1, t, f, k + 5))

\* StoreSummary that adds the summary also when it is the empty string.
StoreSummary_Always(db, summary, t, f, k) ==
  With(SummaryAdd(db.summaries, db.summarySeq, 0, summary, "", t,
                  Local(f, k, 2)),
       LAMBDA a :
         [err |-> IF a.err # OK THEN Wrap("add summary", a.err) ELSE OK,
          db |-> [Called(db, "summaries", 1)
                    EXCEPT !.summaries = a.rows, !.summarySeq = a.seq]])


StoreSummary(db, summary, t, f, k) ==
  IF summary = "" THEN [err |-> OK, db |-> db]
  ELSE With(SummaryAdd(db.summaries, db.summarySeq, 0, summary, "", t,
                       Local(f, k, 2)),
            LAMBDA a :
              [err |-> IF a.err # OK THEN Wrap("add summary", a.err) ELSE OK,
               db |-> [Called(db, "summaries", 1)
                         EXCEPT !.summaries = a.rows, !.summarySeq = a.seq]])

\* ApplyResult that stores the facts before it applies the block updates.
ApplyResult_FactsFirst(db, r, embedProv, embedded, t, f) ==
  LET k1 == 3 * Len(r.block_updates)
      k2 == k1 + 2 * Len(r.facts)
      k3 == k2 + 5 * Len(r.triplets)
  IN Then(StoreFacts(db, r.facts, 1, embedProv, embedded, t, f, k1), LAMBDA d1 :
     Then(ApplyBlockUpdates(d1, r.block_updates, 1, t, f, 0), LAMBDA d2 :
     Then(StoreTriplets(d2, r.triplets, 1, t, f, k2), LAMBDA d3 :
          StoreSummary(d3, r.summary, t, f, k3))))

\* The writes of Run for a parsed result, stopping at the first that fails.
ApplyResult(db, r, embedProv, embedded, t, f) ==
  LET k1 == 3 * Len(r.block_updates)
      k2 == k1 + 2 * Len(r.facts)
      k3 == k2 + 5 * Len(r.triplets)
  IN Then(ApplyBlockUpdates(db, r.block_updates, 1, t, f, 0), LAMBDA d1 :
     Then(StoreFacts(d1, r.facts, 1, embedProv, embedded, t, f, k1), LAMBDA d2 :
     Then(StoreTriplets(d2, r.triplets, 1, t, f, k2), LAMBDA d3 :
          StoreSummary(d3, r.summary, t, f, k3))))

\* Run that gives back the database as it found it when a store write fails.
Run_Rollback(db, cfg, envKey, reply, embedded, t, f) ==
  LET sel == SelectBackend(cfg, envKey)
  IN IF sel.err # OK
     THEN [err |-> sel.err, result |-> NilResult, db |-> db, invoked |-> FALSE]
     ELSE With(Extract(sel.backend, reply), LAMBDA x :
            IF x.err # OK
            THEN [err |-> Wrap("extract", x.err), result |-> NilResult,
                  db |-> db, invoked |-> TRUE]
            ELSE With(ApplyResult(db, x.result, cfg.EmbedProv, embedded, t, f),
                      LAMBDA w :
                        [err |-> w.err,
                         result |-> IF w.err # OK THEN NilResult ELSE x.result,
                         db |-> IF w.err # OK
                                THEN [db EXCEPT !.calls = w.db.calls]
                                ELSE w.db,
                         invoked |-> TRUE]))


\* invoked: the backend was called.
Run(db, cfg, envKey, reply, embedded, t, f) ==
  LET sel == SelectBackend(cfg, envKey)
  IN IF sel.err # OK
     THEN [err |-> sel.err, result |-> NilResult, db |-> db, invoked |-> FALSE]
     ELSE With(Extract(sel.backend, reply), LAMBDA x :
            IF x.err # OK
            THEN [err |-> Wrap("extract", x.err), result |-> NilResult,
                  db |-> db, invoked |-> TRUE]
            ELSE With(ApplyResult(db, x.result, cfg.EmbedProv, embedded, t, f),
                      LAMBDA w :
                        [err |-> w.err,
                         result |-> IF w.err # OK THEN NilResult ELSE x.result,
                         db |-> w.db, invoked |-> TRUE]))

(* -------------------------- the ingest command ------------------------- *)
\* The database the command has open.
Database ==
  [blocks |-> blocks, blockSeq |-> blockSeq,
   archival |-> archival, archivalFts |-> archivalFts,
   archivalSeq |-> archivalSeq,
   entities |-> entities, entitySeq |-> entitySeq,
   relations |-> relations, relationSeq |-> relationSeq,
   summaries |-> summaries, summarySeq |-> summarySeq,
   calls |-> <<>>]

\* The inserts the result can make fit the caps on the counters.
IngestRoom(r) ==
  /\ blockSeq + Cardinality({r.block_updates[i].label :
                               i \in 1..Len(r.block_updates)}
                            \ {b.label : b \in blocks}) <= MaxBlockId
  /\ archivalSeq + Len(r.facts) <= MaxArchivalId
  /\ relationSeq + Len(r.triplets) <= MaxRelationId
  /\ summarySeq + (IF r.summary # "" THEN 1 ELSE 0) <= MaxSummaryId

\* The outcomes of Embed for the facts of a result.
EmbedOutcomes(cfg, r) ==
  IF cfg.EmbedProv = "nil"
  THEN {[i \in 1..Len(r.facts) |-> FALSE]}
  ELSE [1..Len(r.facts) -> BOOLEAN]

IngestRun(cfg, envKey, reply, embedded, f) ==
  \E r \in {Run(Database, cfg, envKey, reply, embedded, now, f)} :
     /\ blocks' = r.db.blocks /\ blockSeq' = r.db.blockSeq
     /\ archival' = r.db.archival /\ archivalFts' = r.db.archivalFts
     /\ archivalSeq' = r.db.archivalSeq
     /\ entities' = r.db.entities /\ entitySeq' = r.db.entitySeq
     /\ relations' = r.db.relations /\ relationSeq' = r.db.relationSeq
     /\ summaries' = r.db.summaries /\ summarySeq' = r.db.summarySeq
     /\ res' = [op |-> "ingest", cfg |-> cfg, env |-> envKey, reply |-> reply,
                err |-> r.err, result |-> r.result, invoked |-> r.invoked,
                calls |-> r.db.calls, embedded |-> embedded]
     /\ UNCHANGED now

\* "ingest <text>" with a configuration from cfgs, ANTHROPIC_API_KEY from
\* envKeys and a backend that answers with one of replies.
Ingest(cfgs, envKeys, replies) ==
  \E cfg \in cfgs, envKey \in envKeys :
    IF SelectBackend(cfg, envKey).err # OK
    THEN IngestRun(cfg, envKey, NoReply, <<>>, 0)
    ELSE \E reply \in replies :
           \E x \in {Extract(SelectBackend(cfg, envKey).backend, reply)} :
             IF x.err # OK
             THEN IngestRun(cfg, envKey, reply, <<>>, 0)
             ELSE /\ IngestRoom(x.result)
                  /\ \E f \in 0..Statements(x.result),
                        embedded \in EmbedOutcomes(cfg, x.result) :
                       IngestRun(cfg, envKey, reply, embedded, f)

(* ------------------ two "block set" flows side by side ------------------ *)
\* Two processes run the set-or-update flow (GetByLabel, then Create when
\* it failed, else Update) against one database file.  The engine runs
\* each statement on its own, one at a time; nothing holds between the
\* statements of a process.  While the flows are under way res holds, for
\* each process, its arguments, its position and what it has read.
Procs == {1, 2}

FlowsDone ==
  IF res.op = "block set flows"
  THEN \A p \in Procs : res.flow[p].pc = "done"
  ELSE TRUE

\* Both processes are started.
SetBegin ==
  /\ FlowsDone
  /\ \E labels \in [Procs -> Labels], contents \in [Procs -> Contents] :
       res' = [op |-> "block set flows",
               before |-> blocks,
               flow |-> [p \in Procs |->
                           [pc |-> "GetByLabel", label |-> labels[p],
                            content |-> contents[p], id |-> 0, err |-> OK]]]
  /\ UNCHANGED <<now, blockVars, archivalVars, graphVars, summaryVars>>

\* store.GetByLabel(label)
SetGetByLabel(p) ==
  /\ ~FlowsDone /\ res.flow[p].pc = "GetByLabel"
  /\ LET g == GetByLabel(blocks, res.flow[p].label, 0)
     IN res' = [res EXCEPT !.flow[p].pc =
                             IF g.err # OK THEN "Create" ELSE "Update"]
  /\ UNCHANGED <<now, blockVars, archivalVars, graphVars, summaryVars>>

\* store.Create: the INSERT
SetCreate(p) ==
  /\ ~FlowsDone /\ res.flow[p].pc = "Create"
  /\ blockSeq < MaxBlockId
  /\ LET ins == BlockInsert(blocks, blockSeq, res.flow[p].label, "core",
                            res.flow[p].content, now)
     IN /\ blocks' = ins.rows
        /\ blockSeq' = ins.seq
        /\ res' = IF ins.err # OK
                  THEN [res EXCEPT !.flow[p].pc = "done",
                                   !.flow[p].err = ins.err]
                  ELSE [res EXCEPT !.flow[p].pc = "GetByID",
                                   !.flow[p].id = ins.id]
  /\ UNCHANGED <<now, archivalVars, graphVars, summaryVars>>

\* store.Create: GetByID of the inserted row
SetCreated(p) ==
  /\ ~FlowsDone /\ res.flow[p].pc = "GetByID"
  /\ LET g == GetByID(blocks, res.flow[p].id, 0)
     IN res' = [res EXCEPT !.flow[p].pc = "done", !.flow[p].err = g.err]
  /\ UNCHANGED <<now, blockVars, archivalVars, graphVars, summaryVars>>

\* store.Update: the UPDATE
SetUpdate(p) ==
  /\ ~FlowsDone /\ res.flow[p].pc = "Update"
  /\ blocks' = BlockUpdateStmt(blocks, res.flow[p].label,
                               res.flow[p].content, now)
  /\ res' = [res EXCEPT !.flow[p].pc = "GetUpdated"]
  /\ UNCHANGED <<now, blockSeq, archivalVars, graphVars, summaryVars>>

\* store.Update: GetByLabel of the updated row
SetUpdated(p) ==
  /\ ~FlowsDone /\ res.flow[p].pc = "GetUpdated"
  /\ LET g == GetByLabel(blocks, res.flow[p].label, 0)
     IN res' = [res EXCEPT !.flow[p].pc = "done", !.flow[p].err = g.err]
  /\ UNCHANGED <<now, blockVars, archivalVars, graphVars, summaryVars>>


(* ------------------ two graph writers side by side --------------------- *)
\* Two processes each run EnsureEntity or AddRelation against one database
\* file, one statement at a time and with nothing held between the
\* statements.  res holds, for each process, its call, its position and
\* the ids its EnsureEntity calls have returned.
WritersDone ==
  IF res.op = "graph writers"
  THEN \A p \in Procs : res.writer[p].pc = "done"
  ELSE TRUE

EnsureCalls ==
  {[call |-> "EnsureEntity", pc |-> "insert", name |-> n, entity_type |-> et,
    id |-> 0, err |-> OK] : n \in Names, et \in EntityTypes}

AddCalls(predicates, metadatas) ==
  {[call |-> "AddRelation", pc |-> "subject insert", subject |-> s,
    predicate |-> pr, object |-> o, metadata |-> m, subID |-> 0, objID |-> 0,
    err |-> OK] : s \in Names, pr \in predicates, o \in Names, m \in metadatas}

\* Both processes are started.
WritersBegin(predicates, metadatas) ==
  /\ WritersDone
  /\ \E w \in [Procs -> EnsureCalls \cup AddCalls(predicates, metadatas)] :
       /\ relationSeq + Cardinality({p \in Procs : w[p].call = "AddRelation"})
            <= MaxRelationId
       /\ res' = [op |-> "graph writers", before |-> entities, writer |-> w]
  /\ UNCHANGED <<now, blockVars, archivalVars, graphVars, summaryVars>>

\* The name the EnsureEntity call under way in process p was given.
EnsuredName(w) ==
  IF w.call = "EnsureEntity" THEN w.name
  ELSE IF w.pc \in {"subject insert", "subject select"} THEN w.subject
  ELSE w.object

\* EnsureEntity: INSERT OR IGNORE INTO entities
WriterInsertEntity(p) ==
  /\ ~WritersDone
  /\ res.writer[p].pc \in {"insert", "subject insert", "object insert"}
  /\ LET w == res.writer[p]
         ins == EntityInsertOrIgnore(entities, entitySeq, EnsuredName(w),
                                     IF w.call = "EnsureEntity"
                                     THEN w.entity_type ELSE "", now)
     IN /\ entities' = ins.rows
        /\ entitySeq' = ins.seq
        /\ res' = [res EXCEPT !.writer[p].pc =
                     CASE w.pc = "insert" -> "select"
                       [] w.pc = "subject insert" -> "subject select"
                       [] w.pc = "object insert" -> "object select"]
  /\ UNCHANGED <<now, blockVars, archivalVars, relations, relationSeq,
                 summaryVars>>

\* EnsureEntity: SELECT id FROM entities WHERE name = ?
WriterSelectEntity(p) ==
  /\ ~WritersDone
  /\ res.writer[p].pc \in {"select", "subject select", "object select"}
  /\ LET w == res.writer[p]
         sel == EntitySelectId(entities, EnsuredName(w))
     IN res' = IF sel.err # OK
               THEN [res EXCEPT !.writer[p].pc = "done",
                                !.writer[p].err = sel.err]
               ELSE CASE w.pc = "select" ->
                           [res EXCEPT !.writer[p].pc = "done",
                                       !.writer[p].id = sel.id]
                      [] w.pc = "subject select" ->
                           [res EXCEPT !.writer[p].pc = "object insert",
                                       !.writer[p].subID = sel.id]
                      [] w.pc = "object select" ->
                           [res EXCEPT !.writer[p].pc = "relation insert",
                                       !.writer[p].objID = sel.id]
  /\ UNCHANGED <<now, blockVars, archivalVars, graphVars, summaryVars>>

\* AddRelation: INSERT OR IGNORE INTO relations
WriterInsertRelation(p) ==
  /\ ~WritersDone
  /\ res.writer[p].pc = "relation insert"
  /\ LET w == res.writer[p]
         ins == RelationInsertOrIgnore(entities, relations, relationSeq,
                                       w.subID, w.predicate, w.objID,
                                       w.metadata, now)
     IN /\ relations' = ins.rows
        /\ relationSeq' = ins.seq
        /\ res' = [res EXCEPT !.writer[p].pc = "done",
                              !.writer[p].err = ins.err]
  /\ UNCHANGED <<now, blockVars, archivalVars, entities, entitySeq,
                 summaryVars>>


(* ----------------------- the stages of one run -------------------------- *)
\* Run followed statement by statement.  While a run is under way res holds
\* its position (stage) and its locals: the configuration, the backend the
\* switch chose, the backend's reply, the parsed result, the number of
\* backend calls made so far, and the error it returns.
RunStages ==
  <<"Idle", "BackendSelected", "BackendInvoked", "ResultParsed",
    "StoresUpdated", "Done">>
Terminal == {"Done", "Failed"}

Running == res.op = "run" /\ res.stage \notin Terminal

\* Run is called.
RunStart(cfgs, envKeys) ==
  /\ ~Running
  /\ \E cfg \in cfgs, envKey \in envKeys :
       res' = [op |-> "run", stage |-> "Idle", cfg |-> cfg, env |-> envKey,
               backend |-> "", reply |-> NoReply, result |-> NilResult,
               invocations |-> 0, err |-> OK]
  /\ UNCHANGED <<now, blockVars, archivalVars, graphVars, summaryVars>>

\* cfg == nil and the switch on cfg.Provider.
RunSelect ==
  /\ Running /\ res.stage = "Idle"
  /\ LET sel == SelectBackend(res.cfg, res.env)
     IN res' = IF sel.err # OK
               THEN [res EXCEPT !.stage = "Failed", !.err = sel.err]
               ELSE [res EXCEPT !.stage = "BackendSelected",
                                !.backend = sel.backend]
  /\ UNCHANGED <<now, blockVars, archivalVars, graphVars, summaryVars>>

\* RunParse that calls the backend again when its text does not parse.
RunParse_Retry ==
  /\ Running /\ res.stage = "BackendInvoked"
  /\ \E x \in {Extract(res.backend, res.reply)} :
       res' = IF x.err # OK
              THEN [res EXCEPT !.stage = "BackendSelected"]
              ELSE [res EXCEPT !.stage = "ResultParsed",
                               !.result = x.result]
  /\ UNCHANGED <<now, blockVars, archivalVars, graphVars, summaryVars>>

\* extractWith*: the call of the backend (the subprocess, the HTTP request)
\* returns, with a failure or with a text.
RunInvoke(replies) ==
  /\ Running /\ res.stage = "BackendSelected"
  /\ \E reply \in replies :
       \E x \in {Extract(res.backend, reply)} :
         /\ x.err = OK => IngestRoom(x.result)
         /\ res' = IF reply.fail
                   THEN [res EXCEPT !.stage = "Failed",
                                    !.invocations = @ + 1,
                                    !.err = Wrap("extract", x.err)]
                   ELSE [res EXCEPT !.stage = "BackendInvoked",
                                    !.invocations = @ + 1,
                                    !.reply = reply]
  /\ UNCHANGED <<now, blockVars, archivalVars, graphVars, summaryVars>>

\* extractWith*: the text is trimmed, stripped and unmarshalled.
RunParse ==
  /\ Running /\ res.stage = "BackendInvoked"
  /\ \E x \in {Extract(res.backend, res.reply)} :
       res' = IF x.err # OK
              THEN [res EXCEPT !.stage = "Failed",
                               !.err = Wrap("extract", x.err)]
              ELSE [res EXCEPT !.stage = "ResultParsed",
                               !.result = x.result]
  /\ UNCHANGED <<now, blockVars, archivalVars, graphVars, summaryVars>>

\* The four blocks of store calls.
RunWrite ==
  /\ Running /\ res.stage = "ResultParsed"
  /\ \E f \in 0..Statements(res.result),
        embedded \in EmbedOutcomes(res.cfg, res.result) :
       \E w \in {ApplyResult(Database, res.result, res.cfg.EmbedProv,
                             embedded, now, f)} :
         /\ blocks' = w.db.blocks /\ blockSeq' = w.db.blockSeq
         /\ archival' = w.db.archival /\ archivalFts' = w.db.archivalFts
         /\ archivalSeq' = w.db.archivalSeq
         /\ entities' = w.db.entities /\ entitySeq' = w.db.entitySeq
         /\ relations' = w.db.relations /\ relationSeq' = w.db.relationSeq
         /\ summaries' = w.db.summaries /\ summarySeq' = w.db.summarySeq
         /\ res' = IF w.err # OK
                   THEN [res EXCEPT !.stage = "Failed", !.err = w.err,
                                    !.result = NilResult]
                   ELSE [res EXCEPT !.stage = "StoresUpdated"]
  /\ UNCHANGED now

\* return result, nil
RunReturn ==
  /\ Running /\ res.stage = "StoresUpdated"
  /\ res' = [res EXCEPT !.stage = "Done"]
  /\ UNCHANGED <<now, blockVars, archivalVars, graphVars, summaryVars>>


(* ---------------------------- specification ---------------------------- *)
Init ==
  /\ now = 0
  /\ blocks = {} /\ blockSeq = 0
  /\ archival = {} /\ archivalFts = {} /\ archivalSeq = 0
  /\ entities = {} /\ entitySeq = 0
  /\ relations = {} /\ relationSeq = 0
  /\ summaries = {} /\ summarySeq = 0
  /\ res = [op |-> "open", err |-> OK]

NextBlock ==
  \/ Tick
  \/ BlockCreate
  \/ BlockGet
  \/ BlockSet
  \/ BlockUpdate
  \/ BlockDelete
  \/ BlockList

SpecBlock == Init /\ [][NextBlock]_vars

\* The graph commands, all within one second of the clock.
NextGraph ==
  \/ GraphEnsure
  \/ GraphAdd
  \/ GraphQuery
  \/ GraphEntities

SpecGraph == Init /\ [][NextGraph]_vars

\* The context assembler over the graphs that "graph add" builds.
NextContext ==
  \/ GraphAdd
  \/ Context

SpecContext == Init /\ [][NextContext]_vars

\* Block commands and extraction runs against one database, all within one
\* second of the clock.  A run is configured for the CLI backend with an
\* embedding provider; the result it extracts holds at most two block
\* updates, the first of them human = X, and possibly a summary.  The
\* backend answers with the bare JSON text of such a result, with one result
\* inside a code fence, with text that is no JSON, with white space, with
\* nothing, or fails.
RunConfigs ==
  {[Provider |-> "claude", APIKey |-> "", EmbedProv |-> "embedder"]}
RunResults ==
  {r \in ExtractionResults :
     /\ r.facts = <<>> /\ r.triplets = <<>>
     /\ r.block_updates # <<>>
           => r.block_updates[1] = [label |-> "human", content |-> "X"]}
RunReplies ==
  {NoReply}
    \cup {[fail |-> FALSE, text |-> x] :
            x \in {<<>>, <<Space, Newline>>, <<Word>>}
                    \cup {PlainText(r) : r \in RunResults}
                    \cup {FencedText(r) : r \in {x \in RunResults :
                                                   x.block_updates = <<>>}}}

NextIngest ==
  \/ BlockCreate
  \/ BlockUpdate
  \/ BlockDelete
  \/ Ingest(RunConfigs, {""}, RunReplies)

SpecIngest == Init /\ [][NextIngest]_vars

\* The context assembler over the tables that the block commands build.
NextCoreBlocks ==
  \/ BlockCreate
  \/ BlockUpdate
  \/ BlockDelete
  \/ Context

SpecCoreBlocks == Init /\ [][NextCoreBlocks]_vars

\* The context assembler over the summaries that "summary add" stores.
NextSummaries ==
  \/ Tick
  \/ SummaryAddCmd
  \/ Context

SpecSummaries == Init /\ [][NextSummaries]_vars

\* Extraction runs under every configuration and both settings of
\* ANTHROPIC_API_KEY.  The backend fails, answers with text that is no JSON,
\* or answers with a result: one block update, or a block update and a
\* summary.
BlockResult ==
  [block_updates |-> <<[label |-> "persona", content |-> "Y"]>>,
   facts |-> <<>>, triplets |-> <<>>, summary |-> ""]
SummaryResult ==
  [block_updates |-> <<[label |-> "human", content |-> "X"]>>,
   facts |-> <<>>, triplets |-> <<>>, summary |-> "S"]
ConfigReplies ==
  {NoReply, [fail |-> FALSE, text |-> <<Word>>],
   [fail |-> FALSE, text |-> PlainText(BlockResult)],
   [fail |-> FALSE, text |-> PlainText(SummaryResult)]}

NextRunConfig == Ingest(Configs, EnvKeys, ConfigReplies)

SpecRunConfig == Init /\ [][NextRunConfig]_vars


\* Extraction runs with each of the three backends.  The backend fails, or
\* answers with nothing, with white space, with text that is no JSON, with
\* a JSON result after some other text, with the bare JSON text of a
\* result, or with a result inside a code fence.
ParseConfigs ==
  {[Provider |-> "claude", APIKey |-> "", EmbedProv |-> "nil"],
   [Provider |-> "anthropic", APIKey |-> "sk-config", EmbedProv |-> "nil"],
   [Provider |-> "ollama", APIKey |-> "", EmbedProv |-> "nil"]}
ParseReplies ==
  {NoReply}
    \cup {[fail |-> FALSE, text |-> x] :
            x \in {<<>>, <<Space, Newline>>, <<Word>>}
                    \cup {<<Word, Space, Object(r)>> :
                            r \in {BlockResult, SummaryResult}}
                    \cup {PlainText(r) : r \in {BlockResult, SummaryResult}}
                    \cup {FencedText(r) : r \in {BlockResult, SummaryResult}}}

NextRunParse == Ingest(ParseConfigs, {""}, ParseReplies)

SpecRunParse == Init /\ [][NextRunParse]_vars


\* Extraction runs with the CLI backend and an embedding provider whose
\* Embed may fail.  The backend answers with the bare JSON text of a result:
\* one write to each store, or two to each of the block, archival and graph
\* stores and a summary.
FullResult ==
  [block_updates |-> <<[label |-> "human", content |-> "X"]>>,
   facts |-> <<[content |-> "Y", tags |-> <<"t">>]>>,
   triplets |-> <<[subject |-> "A", predicate |-> "p", object |-> "B"]>>,
   summary |-> "S"]
LongResult ==
  [block_updates |-> <<[label |-> "human", content |-> "X"],
                       [label |-> "human", content |-> "Y"]>>,
   facts |-> <<[content |-> "Y", tags |-> <<"t">>],
               [content |-> "X", tags |-> <<>>]>>,
   triplets |-> <<[subject |-> "A", predicate |-> "p", object |-> "B"],
                  [subject |-> "B", predicate |-> "q", object |-> "A"]>>,
   summary |-> "S"]
WriteConfigs ==
  {[Provider |-> "claude", APIKey |-> "", EmbedProv |-> "embedder"]}
WriteReplies ==
  {[fail |-> FALSE, text |-> PlainText(r)] : r \in {FullResult, LongResult}}

NextRunWrites == Ingest(WriteConfigs, {""}, WriteReplies)

SpecRunWrites == Init /\ [][NextRunWrites]_vars


\* Extraction runs followed stage by stage, one after the other, under every
\* configuration.  A run that was called goes on to its return: Run is
\* straight-line code and the call of the backend is taken to return.
NextRunStages ==
  \/ RunStart(Configs, EnvKeys)
  \/ RunSelect
  \/ RunInvoke(ConfigReplies)
  \/ RunParse
  \/ RunWrite
  \/ RunReturn

RunStep ==
  RunSelect \/ RunInvoke(ConfigReplies) \/ RunParse \/ RunWrite \/ RunReturn

SpecRunStages == Init /\ [][NextRunStages]_vars /\ WF_vars(RunStep)


\* SummaryStore.List on the table that n "summary add" commands leave: ids
\* 1..n, the first k rows added in second 0 and the rest in second 1, every
\* row of level 0 or the levels alternating.
SummaryTable(n, k, alternating) ==
  {[id |-> i, level |-> IF alternating THEN i % 2 ELSE 0, content |-> "S",
    source_ids |-> "", created_at |-> IF i <= k THEN 0 ELSE 1] : i \in 1..n}

InitSummaryTable ==
  /\ now = 1
  /\ blocks = {} /\ blockSeq = 0
  /\ archival = {} /\ archivalFts = {} /\ archivalSeq = 0
  /\ entities = {} /\ entitySeq = 0
  /\ relations = {} /\ relationSeq = 0
  /\ \E n \in 0..MaxListedRows, k \in {0, 1, 2}, alternating \in BOOLEAN :
       /\ k <= n
       /\ summaries = SummaryTable(n, k, alternating)
       /\ summarySeq = n
  /\ res = [op |-> "open", err |-> OK]

ListLimits == {-1, 0, 1, 2, 20, 21}

\* SummaryStore.List(level, limit)
SummaryListCall ==
  \E level \in SummaryLevels, limit \in ListLimits, f \in {0, 1} :
    /\ LET r == SummaryList(summaries, level, limit, f)
       IN res' = [op |-> "summary list", level |-> level, limit |-> limit,
                  err |-> r.err, summaries |-> r.summaries]
    /\ UNCHANGED <<now, blockVars, archivalVars, graphVars, summaryVars>>

NextSummaryList == SummaryListCall

SpecSummaryList == InitSummaryTable /\ [][NextSummaryList]_vars


\* The archival store's Add and List, over two seconds of the clock: the
\* entries have one content and no tag or the tag t.
NextArchiveList ==
  \/ Tick
  \/ ArchiveAdd({"X"}, {<<>>, <<"t">>})
  \/ ArchiveList({"", "t"}, {0, 1, 2})

SpecArchiveList == Init /\ [][NextArchiveList]_vars


\* The archival store's Add, Delete and Search within one second: the
\* entries have the content X or Y and no tag or the tag t; the queries are
\* a word of content and a tag.
NextArchiveIndex ==
  \/ ArchiveAdd({"X", "Y"}, {<<>>, <<"t">>})
  \/ ArchiveDelete
  \/ ArchiveSearch({"X", "t"}, {0, 1})

SpecArchiveIndex == Init /\ [][NextArchiveIndex]_vars


\* The archival store's Add with every tag list, and GetByID.
NextArchiveTags ==
  \/ ArchiveAdd({"X"}, TagLists)
  \/ ArchiveGet

SpecArchiveTags == Init /\ [][NextArchiveTags]_vars


\* "block create" and extraction runs whose result holds block updates
\* only: at most two, the first of them human = X.
BlockReplies ==
  {[fail |-> FALSE, text |-> PlainText(r)] :
     r \in {x \in RunResults : x.summary = ""}}

NextRunBlocks ==
  \/ BlockCreate
  \/ Ingest(RunConfigs, {""}, BlockReplies)

SpecRunBlocks == Init /\ [][NextRunBlocks]_vars


\* Pairs of "block set" flows, their statements interleaved in every way.
NextSetFlows ==
  \/ SetBegin
  \/ \E p \in Procs : SetGetByLabel(p)
  \/ \E p \in Procs : SetCreate(p)
  \/ \E p \in Procs : SetCreated(p)
  \/ \E p \in Procs : SetUpdate(p)
  \/ \E p \in Procs : SetUpdated(p)

SpecSetFlows == Init /\ [][NextSetFlows]_vars


\* Pairs of graph writers, their statements interleaved in every way.
NextGraphWriters ==
  \/ WritersBegin({"p"}, {"", "m"})
  \/ \E p \in Procs : WriterInsertEntity(p)
  \/ \E p \in Procs : WriterSelectEntity(p)
  \/ \E p \in Procs : WriterInsertRelation(p)

SpecGraphWriters == Init /\ [][NextGraphWriters]_vars


\* Relations added with and without metadata as the clock advances.
NextRelationMetadata ==
  \/ Tick
  \/ GraphAddWith({"", "m"})

SpecRelationMetadata == Init /\ [][NextRelationMetadata]_vars


(* =============================== claims ================================ *)
HasLabel(rows, label) == \E b \in rows : b.label = label
HasName(rows, name) == \E e \in rows : e.name = name

\* The names of a relation's endpoints, through the entities table.
SubjectName(r) == (CHOOSE e \in entities : e.id = r.subject_id).name
ObjectName(r) == (CHOOSE e \in entities : e.id = r.object_id).name

RefIntegrity(ents, rels) ==
  \A r \in rels : /\ \E e \in ents : e.id = r.subject_id
                  /\ \E e \in ents : e.id = r.object_id

HasTriple(ents, rels, subject, predicate, object) ==
  \E r \in rels, s \in ents, o \in ents :
    /\ s.id = r.subject_id /\ s.name = subject
    /\ o.id = r.object_id /\ o.name = object
    /\ r.predicate = predicate

\* How often the relation with this id occurs in a returned list.
Occurrences(rels, id) == Cardinality({i \in DOMAIN rels : rels[i].id = id})

AnyFault(f) ==
  \/ f.blocks = 1 \/ f.summaries = 1 \/ f.entities = 1
  \/ \E n \in Names : f.query[n] = 1

\* C1: Build never returns a partial payload: when any read it issues
\* fails (the block list, the summary list, the entity list or the
\* QueryEntity of one entity), Build returns an error and no payload.
C1_NoPartialPayload ==
  res.op = "context" /\ AnyFault(res.faults)
    => res.err # OK /\ res.payload.nil

\* C2: after any sequence of block create, update and delete commands and
\* extraction runs (runs that stop at a failing write included), the block
\* table holds at most one block per label.
C2_OneBlockPerLabel ==
  \A a \in blocks, b \in blocks : a.label = b.label => a = b

\* A run has just applied two updates of one label to a table that holds
\* both labels, one of them in a block that "block create" made with the
\* type archival.
C2_Witness ==
  /\ res.op = "ingest" /\ res.err = OK
  /\ Len(res.result.block_updates) = 2
  /\ res.result.block_updates[1].label = res.result.block_updates[2].label
  /\ \A l \in Labels : HasLabel(blocks, l)
  /\ \E b \in blocks : b.block_type = "archival"

\* C3: create on a label that exists fails with Conflict and leaves the
\* table as it was; on a label that does not exist it succeeds and
\* getByLabel then returns the content given.
C3_CreateConflictOrRoundTrip ==
  [][res'.op = "block create" =>
       IF HasLabel(blocks, res'.label)
       THEN res'.err = Conflict /\ blocks' = blocks /\ blockSeq' = blockSeq
       ELSE /\ res'.err = OK
            /\ GetByLabel(blocks', res'.label, 0).err = OK
            /\ GetByLabel(blocks', res'.label, 0).block.content = res'.content
            /\ res'.block = GetByLabel(blocks', res'.label, 0).block]_vars

C3_Witness ==
  /\ res.op = "block create"
  /\ res.err = Conflict
  /\ \E b \in blocks : b.label = res.label /\ b.content # res.content

\* C4: update on an absent label fails with NotFound and creates no block:
\* the table is the same before and after.
C4_UpdateAbsentNotFound ==
  [][res'.op = "block update" /\ ~HasLabel(blocks, res'.label) =>
       res'.err = NotFound /\ blocks' = blocks /\ blockSeq' = blockSeq]_vars

C4_Witness ==
  /\ res.op = "block update"
  /\ res.err = NotFound
  /\ blocks # {}

\* C5: delete succeeds whether or not the label exists, removes exactly the
\* block with that label (nothing when it is absent), a second delete
\* changes nothing more, and getByLabel then fails with NotFound.
C5_DeleteIdempotent ==
  [][res'.op = "block delete" =>
       /\ res'.err = OK
       /\ blocks' = {b \in blocks : b.label # res'.label}
       /\ ~HasLabel(blocks, res'.label) => blocks' = blocks
       /\ Delete(blocks', res'.label, 0).err = OK
       /\ Delete(blocks', res'.label, 0).rows = blocks'
       /\ GetByLabel(blocks', res'.label, 0).err = NotFound]_vars

\* One block was ever created, it is still there, and the last command
\* deleted another label: a delete of an absent label.
C5_Witness ==
  /\ res.op = "block delete"
  /\ res.err = OK
  /\ blockSeq = 1
  /\ \E b \in blocks : b.label # res.label

\* C6: ensureEntity returns the id of the entity with that name; when the
\* name exists the table is unchanged (same id, the type of the first call
\* stays); no two entity rows share a name and no row is ever changed.
C6_EnsureEntityIdempotent ==
  [][/\ \A e1, e2 \in entities' : e1.name = e2.name => e1 = e2
     /\ \A e \in entities : e \in entities'
     /\ res'.op = "ensure entity" =>
          /\ res'.err = OK
          /\ \E e \in entities' : e.name = res'.name /\ e.id = res'.id
          /\ HasName(entities, res'.name) => entities' = entities
          /\ ~HasName(entities, res'.name) =>
               \E e \in entities' : /\ e.name = res'.name
                                    /\ e.entity_type = res'.entity_type]_vars

C6_Witness ==
  /\ res.op = "ensure entity"
  /\ res.err = OK
  /\ \E e \in entities : /\ e.name = res.name
                         /\ e.id = res.id
                         /\ e.entity_type # res.entity_type

\* C7: no two relation rows share (subject, predicate, object); addRelation
\* succeeds, and when the triple exists already it adds no row.
C7_UniqueTriple ==
  [][/\ \A r1, r2 \in relations' :
          /\ r1.subject_id = r2.subject_id
          /\ r1.predicate = r2.predicate
          /\ r1.object_id = r2.object_id
          => r1 = r2
     /\ res'.op = "graph add" =>
          /\ res'.err = OK
          /\ HasTriple(entities', relations', res'.subject, res'.predicate,
                       res'.object)
          /\ HasTriple(entities, relations, res'.subject, res'.predicate,
                       res'.object)
               => relations' = relations /\ relationSeq' = relationSeq]_vars

\* The last command added a triple whose row is older than the newest row:
\* the triple was there before.
C7_Witness ==
  /\ res.op = "graph add"
  /\ res.err = OK
  /\ \E r \in relations : /\ SubjectName(r) = res.subject
                          /\ r.predicate = res.predicate
                          /\ ObjectName(r) = res.object
                          /\ r.id < relationSeq

\* C8: the subject and object of every relation are entities that exist:
\* addRelation creates the endpoints it misses and no step removes an
\* entity.
C8_EndpointsExist ==
  [][/\ RefIntegrity(entities', relations')
     /\ \A e \in entities : \E e2 \in entities' : e2.id = e.id /\ e2.name = e.name
     /\ res'.op = "graph add" =>
          /\ res'.err = OK
          /\ HasName(entities', res'.subject)
          /\ HasName(entities', res'.object)]_vars

C8_Witness ==
  /\ res.op = "graph add"
  /\ res.subject # res.object
  /\ entitySeq = 2
  /\ \E r \in relations : /\ SubjectName(r) = res.subject
                          /\ ObjectName(r) = res.object
                          /\ r.id = relationSeq

\* C9: queryEntity(name) returns, without error, each relation whose
\* subject or object is name exactly once (also when both are name) and no
\* other relation; with no such relation the result is empty.
C9_QueryEntityExactlyOnce ==
  res.op = "graph query" =>
    /\ res.err = OK
    /\ \A r \in relations :
         Occurrences(res.rels, r.id) =
           IF SubjectName(r) = res.name \/ ObjectName(r) = res.name
           THEN 1 ELSE 0
    /\ \A i \in DOMAIN res.rels :
         \E r \in relations :
           /\ res.rels[i].id = r.id
           /\ res.rels[i].subject = SubjectName(r)
           /\ res.rels[i].predicate = r.predicate
           /\ res.rels[i].object = ObjectName(r)

C9_Witness ==
  /\ res.op = "graph query"
  /\ Len(res.rels) = 2
  /\ \E i \in DOMAIN res.rels :
       res.rels[i].subject = res.name /\ res.rels[i].object = res.name
  /\ \E r \in relations : Occurrences(res.rels, r.id) = 1

\* C10: when every read succeeds, the relations of the payload hold each
\* stored relation exactly once.
C10_PayloadRelationsOnce ==
  res.op = "context" /\ ~AnyFault(res.faults) =>
    /\ res.err = OK
    /\ ~res.payload.nil
    /\ \A r \in relations : Occurrences(res.payload.key_relations, r.id) = 1
    /\ \A i \in DOMAIN res.payload.key_relations :
         \E r \in relations : res.payload.key_relations[i].id = r.id

C10_Witness ==
  /\ res.op = "context"
  /\ ~AnyFault(res.faults)
  /\ Len(res.payload.key_relations) = 2
  /\ \E i \in DOMAIN res.payload.key_relations :
       res.payload.key_relations[i].subject # res.payload.key_relations[i].object

\* C11: the core_blocks of a payload are exactly the blocks of type "core",
\* each once, in ascending order of label; a block of another type never
\* appears; over an empty store the three fields of the payload are empty.
C11_CoreBlocksOnly ==
  res.op = "context" /\ res.err = OK =>
    LET cb == res.payload.core_blocks
    IN /\ {cb[i] : i \in DOMAIN cb} = {b \in blocks : b.block_type = "core"}
       /\ Len(cb) = Cardinality({b \in blocks : b.block_type = "core"})
       /\ \A i \in DOMAIN cb, j \in DOMAIN cb :
            i < j => Rank(LabelOrder, cb[i].label) < Rank(LabelOrder, cb[j].label)
       /\ (blocks = {} /\ summaries = {} /\ entities = {} /\ relations = {}
             => /\ cb = <<>>
                /\ res.payload.recent_summaries = <<>>
                /\ res.payload.key_relations = <<>>)

\* A payload with one core block over a store that also holds a block of
\* another type.
C11_Witness ==
  /\ res.op = "context" /\ res.err = OK
  /\ \E b \in blocks : b.block_type # "core"
  /\ Len(res.payload.core_blocks) = 1

\* C12: the recent_summaries of a payload are summaries of level 0, five at
\* most, each once, and every level-0 summary left out was added before
\* every one that is listed: they are the five added last.
C12_RecentSummaries ==
  res.op = "context" /\ res.err = OK =>
    LET rs == res.payload.recent_summaries
        level0 == {sm \in summaries : sm.level = 0}
    IN /\ \A i \in DOMAIN rs : rs[i] \in level0
       /\ \A i \in DOMAIN rs, j \in DOMAIN rs : i # j => rs[i].id # rs[j].id
       /\ Len(rs) <= 5
       /\ Len(rs) = IF Cardinality(level0) < 5 THEN Cardinality(level0) ELSE 5
       /\ \A sm \in level0 :
            (\A i \in DOMAIN rs : rs[i].id # sm.id)
              => \A i \in DOMAIN rs : rs[i].id > sm.id

\* A payload of five summaries over a store that holds six of level 0 and
\* one of level 1.
C12_Witness ==
  /\ res.op = "context" /\ res.err = OK
  /\ Len(res.payload.recent_summaries) = 5
  /\ Cardinality({sm \in summaries : sm.level = 0}) = 6
  /\ \E sm \in summaries : sm.level = 1

\* C13: Build is a pure read: a Build, whether it returns a payload or an
\* error, leaves the tables and their counters as they were, and a Build
\* that directly follows another one (no write in between) returns the same
\* payload when both return one.
C13_BuildPureRead ==
  [][res'.op = "context" =>
       /\ UNCHANGED <<blockVars, archivalVars, graphVars, summaryVars>>
       /\ (res.op = "context" /\ res.err = OK /\ res'.err = OK
             => res'.payload = res.payload)]_vars


\* ---- C14
\* The configuration of a run cannot be resolved: there is none, its provider
\* is none of the three backends, or it names the hosted API and neither the
\* configuration nor ANTHROPIC_API_KEY holds a key.
Unresolved(cfg, envKey) ==
  \/ cfg = NilConfig
  \/ cfg # NilConfig /\ cfg.Provider \notin {"claude", "anthropic", "ollama"}
  \/ cfg # NilConfig /\ cfg.Provider = "anthropic"
       /\ cfg.APIKey = "" /\ envKey = ""

ConfigurationErrors ==
  {"no config provided", "unknown provider", "no Anthropic API key"}

\* C14: a run whose configuration cannot be resolved returns a configuration
\* error and no result, calls no backend and leaves the four stores as they
\* were; a run whose configuration resolves returns no configuration error.
C14_ConfigErrorBeforeBackend ==
  [][res'.op = "ingest" =>
       IF Unresolved(res'.cfg, res'.env)
       THEN /\ res'.err \in ConfigurationErrors
            /\ res'.result = NilResult
            /\ ~res'.invoked
            /\ UNCHANGED <<blockVars, archivalVars, graphVars, summaryVars>>
       ELSE res'.err \notin ConfigurationErrors /\ res'.invoked]_vars

\* A run for the hosted API with no key anywhere, against stores that an
\* earlier run has filled.
C14_Witness ==
  /\ res.op = "ingest"
  /\ res.cfg # NilConfig /\ res.cfg.Provider = "anthropic"
  /\ res.cfg.APIKey = "" /\ res.env = ""
  /\ res.err = "no Anthropic API key"
  /\ blocks # {} /\ summaries # {}


\* ---- C15
\* The text of a reply, once the backend of cfg has taken the code fence
\* off (the CLI backend does), is the JSON text of one extraction result.
ParsesAsSchema(cfg, reply) ==
  /\ ~reply.fail
  /\ LET v == TrimSpace(IF cfg.Provider = "claude"
                        THEN stripCodeFences(reply.text) ELSE reply.text)
     IN Len(v) = 1 /\ v[1].kind = "object"

\* C15: a run whose backend call fails, or whose backend returns text that
\* does not parse as an extraction result, returns an error and no result
\* and leaves the four stores as they were; a run that changes a store had
\* a reply that parsed.
C15_NoWriteBeforeParse ==
  [][res'.op = "ingest" /\ res'.invoked =>
       /\ ~ParsesAsSchema(res'.cfg, res'.reply) =>
            /\ res'.err # OK
            /\ res'.result = NilResult
            /\ UNCHANGED <<blockVars, archivalVars, graphVars, summaryVars>>
       /\ <<blockVars, archivalVars, graphVars, summaryVars>>'
            # <<blockVars, archivalVars, graphVars, summaryVars>>
            => ParsesAsSchema(res'.cfg, res'.reply)]_vars

\* A run whose backend returned a result after some other text, against
\* stores that an earlier run has filled.
C15_Witness ==
  /\ res.op = "ingest" /\ res.invoked
  /\ ~res.reply.fail
  /\ \E i \in 1..Len(res.reply.text) : res.reply.text[i].kind = "object"
  /\ res.err = "extract: decode extraction result"
  /\ blocks # {}


\* ---- C16
\* The result a backend's reply holds, when the reply is the bare JSON text
\* of a result.
Extracted(reply) == reply.text[1].value

\* The store writes of a result in the order the claim gives: the block
\* updates, the facts, the triplets, each in list order, then the summary.
WritesInOrder(r) ==
  [i \in 1..Len(r.block_updates) |-> [store |-> "blocks", index |-> i]]
    \o [i \in 1..Len(r.facts) |-> [store |-> "archival", index |-> i]]
    \o [i \in 1..Len(r.triplets) |-> [store |-> "graph", index |-> i]]
    \o (IF r.summary # "" THEN <<[store |-> "summaries", index |-> 1]>>
        ELSE <<>>)

IsPrefix(s, t) == Len(s) <= Len(t) /\ s = SubSeq(t, 1, Len(s))

\* C16: the store writes a run has started are the first writes of the
\* result in the order block updates, facts, triplets, summary, each list in
\* list order; a run that succeeds has started all of them.
C16_WriteOrder ==
  res.op = "ingest" /\ res.invoked /\ ParsesAsSchema(res.cfg, res.reply) =>
    /\ IsPrefix(res.calls, WritesInOrder(Extracted(res.reply)))
    /\ res.err = OK => res.calls = WritesInOrder(Extracted(res.reply))

\* A run that failed at its second triplet, after two block updates, two
\* facts and one triplet.
C16_Witness ==
  /\ res.op = "ingest" /\ res.err # OK
  /\ Extracted(res.reply) = LongResult
  /\ Len(res.calls) = 6
  /\ res.calls[6] = [store |-> "graph", index |-> 2]


\* ---- C17

\* The result that holds the first n writes of r, in the order of a run.
FirstWrites(r, n) ==
  LET nb == Len(r.block_updates)
      nf == Len(r.facts)
      nt == Len(r.triplets)
  IN [block_updates |-> SubSeq(r.block_updates, 1, Min(n, nb)),
      facts |-> SubSeq(r.facts, 1, Min(Max(n - nb, 0), nf)),
      triplets |-> SubSeq(r.triplets, 1, Min(Max(n - nb - nf, 0), nt)),
      summary |-> IF n > nb + nf + nt THEN r.summary ELSE ""]

\* The errors Run returns for a failure of a write to the store.
WriteErrors(store) ==
  {Wrap(msg, e) :
     msg \in (IF store = "blocks" THEN {"create block", "update block"}
              ELSE IF store = "archival" THEN {"add fact"}
              ELSE IF store = "graph" THEN {"add triplet"}
              ELSE {"add summary"}),
     e \in {NotFound, Conflict, ForeignKey, EngineError}}

C18_FactsStoredWithoutEmbedding ==
  [][res'.op = "ingest" /\ res'.invoked
       /\ ParsesAsSchema(res'.cfg, res'.reply) =>
       LET r == Extracted(res'.reply)
           nb == Len(r.block_updates)
       IN /\ \A i \in 1..Len(r.facts) :
               res'.err = OK \/ Len(res'.calls) > nb + i =>
                 \E a \in archival' \ archival :
                   /\ a.id = archivalSeq + i
                   /\ a.content = r.facts[i].content
                   /\ a.tags = JoinTags(r.facts[i].tags)
                   /\ a.embedding = IF res'.embedded[i]
                                    THEN Embedding(r.facts[i].content)
                                    ELSE NoEmbedding
          /\ res'.err = OK =>
               Cardinality(archival' \ archival) = Len(r.facts)
          /\ res'.err # OK =>
               /\ res'.calls # <<>>
               /\ res'.err \in WriteErrors(res'.calls[Len(res'.calls)].store)]_vars

\* A run with two facts in which Embed failed for the first fact and
\* succeeded for the second: the run succeeded, the first entry has no
\* embedding and the second has one.
C18_Witness ==
  /\ res.op = "ingest" /\ res.err = OK
  /\ Extracted(res.reply) = LongResult
  /\ res.embedded = <<FALSE, TRUE>>
  /\ \E a \in archival : a.content = "Y" /\ a.embedding = NoEmbedding
  /\ \E a \in archival : a.content = "X" /\ a.embedding = Embedding("X")


\* ---- C19
\* The stage after stage s on the way Idle .. StoresUpdated, Done.
NextStage(s) ==
  RunStages[(CHOOSE i \in 1..(Len(RunStages) - 1) : RunStages[i] = s) + 1]

\* A step of a run follows the order of the stages.
StageStep ==
  res'.op = "run" =>
    IF ~Running
    THEN res'.stage = "Idle" /\ res'.invocations = 0
    ELSE /\ res'.stage \in {NextStage(res.stage), "Failed"}
         /\ res'.invocations =
              res.invocations
                + (IF res.stage = "BackendSelected" THEN 1 ELSE 0)
         /\ res'.invocations <= 1

\* C19: a run starts at Idle; each of its steps takes it to the next of the
\* stages Idle, BackendSelected, BackendInvoked, ResultParsed,
\* StoresUpdated, Done, or to Failed; the backend is called once, in the
\* step that leaves BackendSelected, and never again; and every run that
\* was started ends at Done or at Failed, where it stays.
C19_StagesInOrder ==
  /\ [][StageStep]_vars
  /\ [][res.op = "run" /\ res.stage \in Terminal /\ res'.op = "run"
          => res'.stage = "Idle"]_vars
  /\ (res.op = "run" /\ res.stage = "Idle")
       ~> (res.op = "run" /\ res.stage \in Terminal)

\* A run that went through every stage, called the backend once and wrote
\* to the stores.
C19_Witness ==
  /\ res.op = "run" /\ res.stage = "Done"
  /\ res.invocations = 1 /\ res.err = OK
  /\ blocks # {} /\ summaries # {}


\* ---- C20
EmptyStore ==
  /\ blocks = {} /\ archival = {} /\ archivalFts = {}
  /\ entities = {} /\ relations = {} /\ summaries = {}

\* C20: a run on an empty store that extracts {block_updates: [human = X],
\* facts: [Y tagged t], triplets: [A p B], summary: S} and succeeds leaves
\* exactly one block (human, X, core), one archival entry (Y, tags "t"),
\* the two entities A and B with the one relation A-p-B, and one summary of
\* level 0 with content S, and returns that result.
C20_FullResultOnEmptyStore ==
  [][EmptyStore /\ res'.op = "ingest" /\ res'.err = OK
       /\ ParsesAsSchema(res'.cfg, res'.reply)
       /\ Extracted(res'.reply) = FullResult =>
       /\ Cardinality(blocks') = 1
       /\ \A b \in blocks' :
            b.label = "human" /\ b.content = "X" /\ b.block_type = "core"
       /\ Cardinality(archival') = 1
       /\ \A a \in archival' : a.content = "Y" /\ a.tags = "t"
       /\ Cardinality(entities') = 2
       /\ {e.name : e \in entities'} = {"A", "B"}
       /\ Cardinality(relations') = 1
       /\ HasTriple(entities', relations', "A", "p", "B")
       /\ Cardinality(summaries') = 1
       /\ \A s \in summaries' : s.level = 0 /\ s.content = "S"
       /\ res'.result = FullResult]_vars

\* The state right after that run on the empty store: the counters show
\* that each table has had one insert, the entities two.
C20_Witness ==
  /\ res.op = "ingest" /\ res.err = OK
  /\ res.result = FullResult
  /\ blockSeq = 1 /\ archivalSeq = 1 /\ entitySeq = 2
  /\ relationSeq = 1 /\ summarySeq = 1


\* ---- C21
\* C21: with every backend, a run whose backend returned the JSON text of a
\* result inside a code fence does not fail to parse it, and when it
\* succeeds it returns the result that the bare JSON text gives.
C21_FenceStrippedEveryBackend ==
  res.op = "ingest" /\ res.invoked /\ ~res.reply.fail =>
    \A r \in {BlockResult, SummaryResult} :
      res.reply.text = FencedText(r) =>
        /\ res.err # Wrap("extract", "decode extraction result")
        /\ res.err = OK => res.result = r


\* ---- C22
\* C22: List(level, limit) returns summaries of the given level only, each
\* once, by creation time descending and by id descending within one
\* second, so that a summary added later comes before one added earlier;
\* with limit <= 0 taken as 20 it returns the first limit of them, or all
\* when there are fewer.
C22_SummaryListOrder ==
  res.op = "summary list" /\ res.err = OK =>
    LET s == res.summaries
        lim == IF res.limit <= 0 THEN 20 ELSE res.limit
        sel == {sm \in summaries : sm.level = res.level}
    IN /\ \A i \in DOMAIN s : s[i] \in sel
       /\ \A i \in DOMAIN s, j \in DOMAIN s :
            i < j =>
              /\ \/ s[i].created_at > s[j].created_at
                 \/ s[i].created_at = s[j].created_at /\ s[i].id > s[j].id
              /\ s[i].id > s[j].id
       /\ Len(s) = Min(lim, Cardinality(sel))
       /\ \A sm \in sel :
            (\A i \in DOMAIN s : s[i] # sm) =>
              \A i \in DOMAIN s : sm.id < s[i].id

\* List with limit 0 on a table of more than 20 summaries of the level:
\* twenty are returned.
C22_Witness ==
  /\ res.op = "summary list" /\ res.err = OK
  /\ res.limit = 0
  /\ Cardinality({sm \in summaries : sm.level = res.level}) > 20
  /\ Len(res.summaries) = 20
  /\ \E sm \in summaries : sm.created_at = 0


\* ---- C23
\* C23: List(tag, limit) returns entries whose tags contain the filter, the
\* entry added later before the entry added earlier also when both were
\* created in the same second; with limit <= 0 taken as 50 it returns at
\* most limit entries.
C23_ArchivalListOrder ==
  res.op = "archive list" /\ res.err = OK =>
    LET s == res.entries
        lim == IF res.limit <= 0 THEN 50 ELSE res.limit
    IN /\ \A i \in DOMAIN s :
            \E e \in archival : e.id = s[i].id /\ e.content = s[i].content
       /\ \A i \in DOMAIN s, j \in DOMAIN s : i < j => s[i].id > s[j].id
       /\ Len(s) <= lim


\* ---- C24
\* C24: after any sequence of Add and Delete the index holds exactly the
\* ids of the stored entries, each with the content and tags of its entry;
\* Search returns stored entries only, each matching the query, and when it
\* returns fewer than its limit it returns every stored entry that matches.
C24_IndexInSync ==
  /\ {x.rowid : x \in archivalFts} = {e.id : e \in archival}
  /\ \A x \in archivalFts :
       \E e \in archival :
         e.id = x.rowid /\ e.content = x.content /\ e.tags = x.tags
  /\ res.op = "archive search" /\ res.err = OK =>
       LET s == res.entries
           lim == IF res.limit <= 0 THEN 10 ELSE res.limit
           hit(e) == e.content = res.query \/ Like(e.tags, res.query)
       IN /\ \A i \in DOMAIN s :
               \E e \in archival :
                 /\ e.id = s[i].id /\ e.content = s[i].content
                 /\ e.tags = s[i].tags /\ hit(e)
          /\ Len(s) <= lim
          /\ Len(s) < lim =>
               \A e \in archival : hit(e) => \E i \in DOMAIN s : s[i].id = e.id

\* A Search after a Delete: an entry that matched is gone, another that
\* matches is returned.
C24_Witness ==
  /\ res.op = "archive search" /\ res.err = OK /\ res.query = "t"
  /\ archivalSeq = 3 /\ Cardinality(archival) = 1
  /\ Len(res.entries) = 1


\* ---- C25
\* The elements of a list of at most two tags with a comma between them.
CommaJoined(l) ==
  IF l = <<>> THEN ""
  ELSE IF Len(l) = 1 THEN l[1]
  ELSE l[1] \o "," \o l[2]

\* C25: an Add that succeeds returns, and stores under the id it returns,
\* an entry whose tags are the elements of the tag list with commas between
\* them, in the list's order, and the empty string for the empty list; no
\* Add changes an entry stored before; GetByID returns the entry as it is
\* stored.
C25_TagsRoundTrip ==
  [][/\ res'.op = "archive add" =>
          /\ \A e \in archival : e \in archival'
          /\ res'.err = OK =>
               /\ res'.entry.tags = CommaJoined(res'.tags)
               /\ res'.tags = <<>> => res'.entry.tags = ""
               /\ res'.entry \in archival' \ archival
     /\ res'.op = "archive get" /\ res'.err = OK =>
          res'.entry \in archival /\ res'.entry.id = res'.id]_vars

\* An entry added with two tags is read back with GetByID.
C25_Witness ==
  /\ res.op = "archive get" /\ res.err = OK
  /\ res.entry.tags = "t,u"
  /\ \E e \in archival : e.tags = ""


\* ---- C26
\* The content of the last update of r for the label.
LastContent(r, label) ==
  r.block_updates[CHOOSE i \in DOMAIN r.block_updates :
                    /\ r.block_updates[i].label = label
                    /\ \A j \in DOMAIN r.block_updates :
                         r.block_updates[j].label = label => j <= i].content

\* C26: after a run that succeeds there is, for every label its result
\* names, exactly one block with that label; its content is that of the
\* result's last update for the label; it has the id and the type of the
\* block that had the label before the run, or a new id and the type core
\* when there was none.  Blocks the result does not name are unchanged.
C26_UpdateOrCreate ==
  [][res'.op = "ingest" /\ res'.err = OK =>
       LET r == res'.result
           named == {r.block_updates[i].label : i \in DOMAIN r.block_updates}
       IN /\ \A l \in named :
               /\ Cardinality({b \in blocks' : b.label = l}) = 1
               /\ \A n \in {b \in blocks' : b.label = l} :
                    /\ n.content = LastContent(r, l)
                    /\ IF \E b \in blocks : b.label = l
                       THEN \E b \in blocks :
                              /\ b.label = l /\ n.id = b.id
                              /\ n.block_type = b.block_type
                       ELSE n.block_type = "core" /\ n.id > blockSeq
          /\ {b \in blocks' : b.label \notin named}
               = {b \in blocks : b.label \notin named}]_vars

\* A run with two updates for the label human has succeeded on a store
\* where the block human is not of type core: the block has the content of
\* the second update and its type.
C26_Witness ==
  /\ res.op = "ingest" /\ res.err = OK
  /\ Len(res.result.block_updates) = 2
  /\ res.result.block_updates[2] = [label |-> "human", content |-> "Y"]
  /\ \E b \in blocks :
       b.label = "human" /\ b.content = "Y" /\ b.block_type # "core"


\* ---- C27
\* C27: a run that succeeds on a result with a non-empty summary adds
\* exactly one summary, of level 0 and with the result's summary as its
\* content; a run that succeeds on a result with the empty summary leaves
\* the summaries as they were; no run, failed or not, removes a summary or
\* adds one of another level.
C27_SummaryAtLevelZero ==
  [][res'.op = "ingest" =>
       /\ summaries \subseteq summaries'
       /\ \A s \in summaries' \ summaries : s.level = 0
       /\ res'.err = OK =>
            IF res'.result.summary # ""
            THEN /\ Cardinality(summaries' \ summaries) = 1
                 /\ \A s \in summaries' \ summaries :
                      s.content = res'.result.summary /\ s.level = 0
            ELSE summaries' = summaries]_vars

\* A run on a result with the empty summary has succeeded after a run that
\* added a summary.
C27_Witness ==
  /\ res.op = "ingest" /\ res.err = OK
  /\ res.result.summary = ""
  /\ res.result.block_updates # <<>>
  /\ \E s \in summaries : s.level = 0 /\ s.content = "S"


\* ---- C28
\* C28: no interleaving of two set-or-update flows leaves two blocks with
\* one label; when both flows were for one label that no block had, then
\* once both have ended exactly one block has the label, its content is
\* that of one of the flows, at least one flow has succeeded, and the other
\* has succeeded or has ended with the Conflict of its Create.
C28_ConcurrentSetKeepsLabelUnique ==
  /\ \A a \in blocks, b \in blocks : a.label = b.label => a = b
  /\ res.op = "block set flows" /\ FlowsDone
       /\ res.flow[1].label = res.flow[2].label
       /\ ~HasLabel(res.before, res.flow[1].label) =>
       /\ Cardinality({b \in blocks : b.label = res.flow[1].label}) = 1
       /\ \A b \in blocks :
            b.label = res.flow[1].label =>
              b.content \in {res.flow[1].content, res.flow[2].content}
       /\ \A p \in Procs : res.flow[p].err \in {OK, Conflict}
       /\ \E p \in Procs : res.flow[p].err = OK

\* Both flows read the label as absent, one Create succeeded and the other
\* ended with Conflict.
C28_Witness ==
  /\ res.op = "block set flows" /\ FlowsDone
  /\ res.flow[1].label = res.flow[2].label
  /\ ~HasLabel(res.before, res.flow[1].label)
  /\ res.flow[1].err = OK /\ res.flow[2].err = Conflict
  /\ \E b \in blocks : b.label = res.flow[1].label
                         /\ b.content = res.flow[1].content
                         /\ b.content # res.flow[2].content


\* ---- C29
\* The <<name, id>> pairs the EnsureEntity calls of a finished writer
\* returned.
Returned(w) ==
  IF w.err # OK THEN {}
  ELSE IF w.call = "EnsureEntity" THEN {<<w.name, w.id>>}
  ELSE {<<w.subject, w.subID>>, <<w.object, w.objID>>}

\* C29: in every interleaving of the statements of two graph writers the
\* entities keep one row per name, and once both writers have ended
\* neither has failed and every name that both have ensured was returned
\* to both with one id, that of the one entity row with the name.
C29_ConcurrentEnsureSameId ==
  /\ \A a \in entities, b \in entities : a.name = b.name => a = b
  /\ res.op = "graph writers" /\ WritersDone =>
       /\ \A p \in Procs : res.writer[p].err = OK
       /\ \A x \in Returned(res.writer[1]), y \in Returned(res.writer[2]) :
            x[1] = y[1] => x[2] = y[2]
       /\ \A p \in Procs : \A x \in Returned(res.writer[p]) :
            {e.id : e \in {e \in entities : e.name = x[1]}} = {x[2]}

\* Both writers ensured a name that had no row, one directly and one
\* through AddRelation, and the direct one inserted after the other and so
\* had its insert ignored.
C29_Witness ==
  /\ res.op = "graph writers" /\ WritersDone
  /\ res.writer[1].call = "EnsureEntity" /\ res.writer[2].call = "AddRelation"
  /\ res.writer[1].name = res.writer[2].object
  /\ ~ \E e \in res.before : e.name = res.writer[1].name
  /\ res.writer[1].entity_type = "person"
  /\ \E e \in entities : e.name = res.writer[1].name /\ e.entity_type = ""
                           /\ e.id = res.writer[1].id


\* ---- C30
\* The relation rows between the entities of the given names.
TripleRows(ents, rels, subject, predicate, object) ==
  {r \in rels : /\ r.predicate = predicate
                /\ \E s \in ents : s.id = r.subject_id /\ s.name = subject
                /\ \E o \in ents : o.id = r.object_id /\ o.name = object}

\* C30: a "graph add" of a triple that has a relation row succeeds and
\* leaves the relation rows as they were, metadata, id and created_at of
\* the existing row included, whatever metadata the call was given.
C30_ExistingRelationUnchanged ==
  [][res'.op = "graph add"
       /\ TripleRows(entities, relations, res'.subject, res'.predicate,
                     res'.object) # {}
       => /\ res'.err = OK
          /\ relations' = relations
          /\ relationSeq' = relationSeq]_vars

\* A "graph add" has just run for a triple whose row carries other metadata
\* than the call was given and was created a second earlier.
C30_Witness ==
  /\ res.op = "graph add" /\ res.err = OK
  /\ \E r \in TripleRows(entities, relations, res.subject, res.predicate,
                         res.object) :
       r.metadata # res.metadata /\ r.created_at < now

====
